---------------------------- MODULE Spec2Model ----------------------------
(***************************************************************************)
(* Valhalla: discovery orchestration (engine + VMware provider).           *)
(*                                                                         *)
(* The repository carries two builds of the VMware provider: the "full"    *)
(* one (Discover fails hard on VM, network and storage errors, and also    *)
(* discovers resource pools and templates) and the "simple" one, the one   *)
(* whose ConnectVMware the engine calls (Discover logs every DiscoverX     *)
(* error and goes on).  The variable impl says which one is linked.        *)
(*                                                                         *)
(* Calls into the vSphere SDK (login, logout, list, properties) are opaque *)
(* platform calls: whether one fails is an input of the step that makes it.*)
(***************************************************************************)
EXTENDS Integers, Sequences, FiniteSets, TLC

VARIABLES
    impl,        \* which vmwareProvider build is linked: "full" or "simple"
    provider,    \* the vmwareProvider struct: client, finder, connected, config
    logins,      \* successful client.Login calls so far (sessions opened)
    logouts,     \* client.Logout calls so far
    connectsOk,  \* Connect calls that returned nil
    inventory,   \* the platform's VM list (what VirtualMachineList would return)
    filters,     \* the VMDiscoveryFilters the caller passes to DiscoverVMs
    ret,         \* what the last provider call returned
    ncalls,      \* provider calls made by the caller so far
    config,      \* the engine's configuration (servers of the three platforms)
    pc,          \* the engine's position inside DiscoverAll / DiscoverVMware
    events,      \* what the running DiscoverVMware call did, in order
    pending,     \* the value DiscoverVMware is about to return (defer still to run)
    allResults,  \* DiscoverAll's accumulator of snapshots
    errors,      \* DiscoverAll's accumulator of platform errors
    result,      \* what DiscoverAll returned
    name,          \* the resource name handed to GenerateResourceName
    resourceName,  \* <<GenerateResourceName(name)>> once computed, <<>> before
    resourceAgain, \* <<GenerateResourceName(resourceName)>> once computed
    generator,     \* the Generator built by NewGenerator: "terraform" or "ansible"
    snapshots,     \* the []*models.Infrastructure handed to Generate
    outputDir,     \* GenerateOptions.OutputDir
    runs,          \* what each Generate call so far returned and wrote
    cliOpts,       \* DiscoverOptions of the discover command: Providers, DryRun
    cliPc,         \* runDiscover's position: index into Providers, or a label
    cliEvents,     \* platform contacts made by the running discover command
    cliResults,    \* runDiscover's allResults accumulator
    cliRet,        \* what runDiscover returned
    valOpts,       \* ValidateOptions of the validate command: Format
    valNode,       \* what opts.Path names on disk: nothing, a file, a directory
    valPc,         \* runValidate's position
    valResults,    \* runValidate's results slice
    valErr,        \* runValidate's function-level validationErr
    valRet,        \* what runValidate returned
    jsonIn,        \* the snapshots discover's outputResults is handed
    jsonDoc,       \* the JSON document formatJSON wrote, <<>> before
    jsonOut        \* what readDiscoveryResults decoded, <<>> before

vars == <<impl, provider, logins, logouts, connectsOk, inventory, filters, ret,
          ncalls, config, pc, events, pending, allResults, errors, result,
          name, resourceName, resourceAgain,
          generator, snapshots, outputDir, runs,
          cliOpts, cliPc, cliEvents, cliResults, cliRet,
          valOpts, valNode, valPc, valResults, valErr, valRet,
          jsonIn, jsonDoc, jsonOut>>

providerVars == <<impl, provider, logins, logouts, connectsOk, inventory, filters,
                  ret, ncalls>>

engineVars == <<config, pc, events, pending, allResults, errors, result>>

nameVars == <<name, resourceName, resourceAgain>>

genVars == <<generator, snapshots, outputDir, runs>>

cliVars == <<cliOpts, cliPc, cliEvents, cliResults, cliRet>>

valVars == <<valOpts, valNode, valPc, valResults, valErr, valRet>>

jsonVars == <<jsonIn, jsonDoc, jsonOut>>

toolVars == <<nameVars, genVars, cliVars, valVars, jsonVars>>

(***************************************************************************)
(* Bounds of the model.                                                    *)
(***************************************************************************)
MaxVMs == 2        \* longest platform VM list explored
MaxCalls == 3      \* provider calls one caller makes in a run

(***************************************************************************)
(* Strings that the code inspects character by character (VM names and the *)
(* name filter) are sequences of one-character strings.                    *)
(***************************************************************************)
Upper == <<"A", "B", "C", "D", "E", "F", "G", "H", "I", "J", "K", "L", "M",
          "N", "O", "P", "Q", "R", "S", "T", "U", "V", "W", "X", "Y", "Z">>
Lower == <<"a", "b", "c", "d", "e", "f", "g", "h", "i", "j", "k", "l", "m",
          "n", "o", "p", "q", "r", "s", "t", "u", "v", "w", "x", "y", "z">>

UpperLetters == {Upper[i] : i \in 1..Len(Upper)}

LowerLetters == {Lower[i] : i \in 1..Len(Lower)}

\* strings.ToLower on one character
LowerChar(c) ==
    IF c \in UpperLetters
    THEN Lower[CHOOSE i \in 1..Len(Upper) : Upper[i] = c]
    ELSE c

\* strings.ToLower
ToLower(s) == [i \in 1..Len(s) |-> LowerChar(s[i])]

\* strings.Contains(s, sub)
Contains(s, sub) ==
    \E k \in 0..(Len(s) - Len(sub)) :
        \A i \in 1..Len(sub) : s[k + i] = sub[i]

(***************************************************************************)
(* The platform's virtual machines (mo.VirtualMachine as vCenter holds     *)
(* them).  hasConfig = FALSE is moVM.Config == nil.  propsOk = FALSE means *)
(* the per-object Properties call for this VM fails.  tags, datacenter and *)
(* cluster are what vCenter knows; no property the provider retrieves      *)
(* carries them.                                                           *)
(***************************************************************************)
VMWeb ==
    [id |-> "vm-1", name |-> <<"W", "e", "b">>, powerState |-> "poweredOn",
     hasConfig |-> TRUE, template |-> FALSE, propsOk |-> TRUE,
     host |-> "h1", resourcePool |-> "rp1", folder |-> "f1",
     tags |-> {"prod"}, datacenter |-> "dc1", cluster |-> "cl1"]

VMDb ==
    [id |-> "vm-2", name |-> <<"d", "b">>, powerState |-> "poweredOff",
     hasConfig |-> TRUE, template |-> FALSE, propsOk |-> TRUE,
     host |-> "h2", resourcePool |-> "rp2", folder |-> "f2",
     tags |-> {}, datacenter |-> "dc1", cluster |-> "cl2"]

VMTemplate ==
    [id |-> "vm-3", name |-> <<"w", "e", "b">>, powerState |-> "poweredOff",
     hasConfig |-> TRUE, template |-> TRUE, propsOk |-> TRUE,
     host |-> "h1", resourcePool |-> "rp1", folder |-> "f1",
     tags |-> {"prod"}, datacenter |-> "dc1", cluster |-> "cl1"]

VMGone ==
    [id |-> "vm-4", name |-> <<"D", "B">>, powerState |-> "poweredOn",
     hasConfig |-> FALSE, template |-> FALSE, propsOk |-> FALSE,
     host |-> "h2", resourcePool |-> "rp1", folder |-> "f2",
     tags |-> {}, datacenter |-> "dc2", cluster |-> "cl1"]

PlatformVMs == {VMWeb, VMDb, VMTemplate, VMGone}

\* Lists of platform VMs without repetition (an id is provider-unique).
Inventories ==
    {s \in UNION {[1..n -> PlatformVMs] : n \in 0..MaxVMs} :
        \A i, j \in 1..Len(s) : i # j => s[i].id # s[j].id}

PlatformNetworks == <<"VM Network">>
PlatformStorage == <<"datastore1">>
PlatformResourcePools == <<"Resources">>

(***************************************************************************)
(* VMDiscoveryFilters.  "" and <<>> are Go's zero values: field unset.     *)
(***************************************************************************)
NoFilters ==
    [Datacenter |-> "", Cluster |-> "", Host |-> "", ResourcePool |-> "",
     Folder |-> "", PowerState |-> "", Tags |-> <<>>, Names |-> <<>>,
     IncludeTemplates |-> FALSE]

NameLists == {<<>>, <<<<"w", "e">>>>, <<<<"D", "B">>>>, <<<<"a">>, <<"E", "B">>>>}

FilterSpace ==
    [Datacenter : {"", "dc1"}, Cluster : {"", "cl1"}, Host : {"", "h1"},
     ResourcePool : {"", "rp1"}, Folder : {"", "f1"},
     PowerState : {"", "poweredOn", "poweredOff"},
     Tags : {<<>>, <<"prod">>}, Names : NameLists,
     IncludeTemplates : BOOLEAN]

NilErr == "nil"


(***************************************************************************)
(* The vmwareProvider struct and its connection handling.                  *)
(***************************************************************************)
NoConfig == [Server |-> "", Datacenter |-> "", Cluster |-> ""]

\* NewVMwareProvider: client and finder nil, connected false.
NewVMwareProvider ==
    [client |-> FALSE, finder |-> FALSE, connected |-> FALSE, config |-> NoConfig]

\* How far a Connect call gets before the platform refuses: the URL does not
\* parse, the SOAP client cannot be created, the login is rejected, the
\* configured datacenter is not found (asked only when one is configured).
ConnectOutcomes(cfg) ==
    {"parse", "client", "login", "ok"}
        \cup (IF cfg.Datacenter # "" THEN {"datacenter"} ELSE {})

\* ConnectVMware (Connect(ctx, cfg) in the full build; the body is the same).
\* login says whether client.Login succeeded in this call.
ConnectVMware(p, cfg, outcome) ==
    LET p0 == [p EXCEPT !.config = cfg]
        p1 == [p0 EXCEPT !.client = TRUE]
        p2 == [p1 EXCEPT !.finder = TRUE]
    IN  CASE outcome = "parse" ->
                [p |-> p0, err |-> "failed to parse vCenter URL", login |-> FALSE]
          [] outcome = "client" ->
                [p |-> p0, err |-> "failed to create vim25 client", login |-> FALSE]
          [] outcome = "login" ->
                [p |-> p1, err |-> "failed to login to vCenter", login |-> FALSE]
          [] outcome = "datacenter" ->
                [p |-> p2, err |-> "failed to find datacenter", login |-> TRUE]
          [] OTHER ->
                [p |-> [p2 EXCEPT !.connected = TRUE], err |-> NilErr, login |-> TRUE]

\* Disconnect with the guard left to the client pointer alone.
DisconnectUnguarded(p, logoutFails) ==
    IF p.client
    THEN [p |-> [p EXCEPT !.connected = FALSE],
          err |-> IF logoutFails THEN "logout failed" ELSE NilErr,
          logout |-> TRUE]
    ELSE [p |-> p, err |-> NilErr, logout |-> FALSE]

\* Disconnect: logs out only when client != nil && connected, and clears
\* connected whether or not the logout succeeded.
Disconnect(p, logoutFails) ==
    IF p.client /\ p.connected
    THEN [p |-> [p EXCEPT !.connected = FALSE],
          err |-> IF logoutFails THEN "logout failed" ELSE NilErr,
          logout |-> TRUE]
    ELSE [p |-> p, err |-> NilErr, logout |-> FALSE]

\* IsConnected
IsConnected(p) == p.connected /\ p.client

(***************************************************************************)
(* DiscoverVMs and its filter.                                             *)
(***************************************************************************)
\* The template test answering "not a template" for every VM.
IsTemplateNever(mo) == FALSE

\* moVM.Config != nil && moVM.Config.Template
IsTemplate(mo) == mo.hasConfig /\ mo.template

\* convertVMToModel (full build): host, resource pool and folder are copied.
convertVMToModel(mo) ==
    [ID |-> mo.id, Name |-> mo.name, PowerState |-> mo.powerState,
     Template |-> IsTemplate(mo), ResourcePool |-> mo.resourcePool,
     Folder |-> mo.folder, Host |-> mo.host, Tags |-> <<>>, Disks |-> <<>>]

\* The VirtualMachine the simple build's DiscoverVMs assembles inline: no
\* host, resource pool, folder, disks or network cards.
vmModel(mo) ==
    [ID |-> mo.id, Name |-> mo.name, PowerState |-> mo.powerState,
     Template |-> IsTemplate(mo), ResourcePool |-> "",
     Folder |-> "", Host |-> "", Tags |-> <<>>, Disks |-> <<>>]

\* The name filter: some candidate is a case-insensitive substring of the name.
nameMatch(vm, f) ==
    \E i \in 1..Len(f.Names) : Contains(ToLower(vm.Name), ToLower(f.Names[i]))

\* vmMatchesFilters of the full build: power state, names, host, resource
\* pool and folder.  Datacenter, Cluster and Tags are not read.
vmMatchesFiltersFull(vm, f) ==
    /\ ~(f.PowerState # "" /\ vm.PowerState # f.PowerState)
    /\ (Len(f.Names) > 0 => nameMatch(vm, f))
    /\ ~(f.Host # "" /\ vm.Host # f.Host)
    /\ ~(f.ResourcePool # "" /\ vm.ResourcePool # f.ResourcePool)
    /\ ~(f.Folder # "" /\ vm.Folder # f.Folder)

\* vmMatchesFilters with the power state check dropped.
vmMatchesFiltersNoPower(vm, f) == Len(f.Names) > 0 => nameMatch(vm, f)

\* vmMatchesFilters of the simple build: power state and names only.
vmMatchesFiltersSimple(vm, f) ==
    /\ ~(f.PowerState # "" /\ vm.PowerState # f.PowerState)
    /\ (Len(f.Names) > 0 => nameMatch(vm, f))

\* A call's outcome: panic is a nil-pointer dereference (the process dies).
Panic == [err |-> "panic", val |-> <<>>, panic |-> TRUE]
Fail(e) == [err |-> e, val |-> <<>>, panic |-> FALSE]
Ok(v) == [err |-> NilErr, val |-> v, panic |-> FALSE]

\* DiscoverVMs of the full build.  No connected check: the first statement
\* goes through p.finder, nil before a Connect got as far as creating it.
\* One bulk Retrieve reads all VMs; templates are skipped unless asked for.
DiscoverVMsFull(p, inv, f, env) ==
    IF ~p.finder THEN Panic
    ELSE IF env.vmList THEN Fail("failed to list VMs")
    ELSE IF env.vmRetrieve THEN Fail("failed to retrieve VM properties")
    ELSE LET kept == SelectSeq(inv,
                LAMBDA mo : /\ ~(IsTemplate(mo) /\ ~f.IncludeTemplates)
                            /\ vmMatchesFiltersFull(convertVMToModel(mo), f))
         IN  Ok([i \in 1..Len(kept) |-> convertVMToModel(kept[i])])

\* DiscoverVMs of the simple build.  No connected check either.  Each VM is
\* read on its own and skipped when the read fails; templates are skipped
\* unless asked for.
DiscoverVMsSimple(p, inv, f, env) ==
    IF ~p.finder THEN Panic
    ELSE IF env.vmList THEN Fail("failed to list VMs")
    ELSE LET kept == SelectSeq(inv,
                LAMBDA mo : /\ mo.propsOk
                            /\ ~(IsTemplate(mo) /\ ~f.IncludeTemplates)
                            /\ vmMatchesFiltersSimple(vmModel(mo), f))
         IN  Ok([i \in 1..Len(kept) |-> vmModel(kept[i])])

\* VMwareProvider.DiscoverVMs of the build linked.
DiscoverVMs(p, inv, f, env) ==
    IF impl = "full" THEN DiscoverVMsFull(p, inv, f, env)
    ELSE DiscoverVMsSimple(p, inv, f, env)

\* DiscoverNetworks (the same in both builds).
DiscoverNetworks(p, env) ==
    IF ~p.finder THEN Panic
    ELSE IF env.net THEN Fail("failed to list networks")
    ELSE Ok(PlatformNetworks)

\* DiscoverStorage (both builds list the datastores through p.finder first).
DiscoverStorage(p, env) ==
    IF ~p.finder THEN Panic
    ELSE IF env.sto THEN Fail("failed to list datastores")
    ELSE Ok(PlatformStorage)

\* DiscoverResourcePools of the full build.
DiscoverResourcePoolsFull(p, env) ==
    IF ~p.finder THEN Panic
    ELSE IF env.rp THEN Fail("failed to list resource pools")
    ELSE Ok(PlatformResourcePools)

\* DiscoverResourcePools of the simple build: a stub, an empty list and nil.
DiscoverResourcePoolsSimple(p, env) == Ok(<<>>)

\* VMwareProvider.DiscoverResourcePools of the build linked.
DiscoverResourcePools(p, env) ==
    IF impl = "full" THEN DiscoverResourcePoolsFull(p, env)
    ELSE DiscoverResourcePoolsSimple(p, env)

\* DiscoverTemplates of the full build: the templates among the VMs whose
\* properties can be read.
DiscoverTemplatesFull(p, inv, env) ==
    IF ~p.finder THEN Panic
    ELSE IF env.tpl THEN Fail("failed to list VMs for template discovery")
    ELSE LET kept == SelectSeq(inv, LAMBDA mo : mo.propsOk /\ IsTemplate(mo))
         IN  Ok([i \in 1..Len(kept) |-> convertVMToModel(kept[i])])

\* DiscoverTemplates of the simple build: a stub, an empty list and nil.
DiscoverTemplatesSimple(p, inv, env) == Ok(<<>>)

\* VMwareProvider.DiscoverTemplates of the build linked.
DiscoverTemplates(p, inv, env) ==
    IF impl = "full" THEN DiscoverTemplatesFull(p, inv, env)
    ELSE DiscoverTemplatesSimple(p, inv, env)

\* Which platform calls fail during one provider call.
Envs ==
    [vmList : BOOLEAN, vmRetrieve : BOOLEAN, net : BOOLEAN, sto : BOOLEAN,
     rp : BOOLEAN, tpl : BOOLEAN]

NoFailure ==
    [vmList |-> FALSE, vmRetrieve |-> FALSE, net |-> FALSE, sto |-> FALSE,
     rp |-> FALSE, tpl |-> FALSE]

(***************************************************************************)
(* Discover: the convenience composition.  The result records the error,   *)
(* the snapshot (<<>> is a nil pointer), and the DiscoverX calls made, in   *)
(* order.                                                                   *)
(***************************************************************************)
Infrastructure(p, vms, nets, sto, rps, tpls, total) ==
    [Provider |-> "vmware", Server |-> p.config.Server,
     Datacenter |-> p.config.Datacenter, Cluster |-> p.config.Cluster,
     VirtualMachines |-> vms, Networks |-> nets, Storage |-> sto,
     ResourcePools |-> rps, Templates |-> tpls,
     Metadata |-> [total_resources |-> total, discovery_duration |-> "elapsed"]]

DiscoverPanic(calls) == [err |-> "panic", infra |-> <<>>, calls |-> calls, panic |-> TRUE]
DiscoverFail(e, calls) == [err |-> e, infra |-> <<>>, calls |-> calls, panic |-> FALSE]
DiscoverOk(i, calls) == [err |-> NilErr, infra |-> <<i>>, calls |-> calls, panic |-> FALSE]

\* The filters Discover passes to DiscoverVMs.
DiscoverFilters(p) ==
    [NoFilters EXCEPT !.Datacenter = p.config.Datacenter, !.Cluster = p.config.Cluster]

\* What a soft-failed DiscoverX leaves in the snapshot: the field stays nil.
ValOrNil(r) == IF r.err = NilErr THEN r.val ELSE <<>>

\* Discover of the full build: VM, network and storage errors are returned;
\* resource pool and template errors are logged (to the logger) and skipped.
DiscoverFull(p, inv, env) ==
    IF ~p.connected THEN DiscoverFail("not connected to vCenter", <<>>)
    ELSE
    LET vms == DiscoverVMsFull(p, inv, DiscoverFilters(p), env)
        nets == DiscoverNetworks(p, env)
        sto == DiscoverStorage(p, env)
        rps == DiscoverResourcePoolsFull(p, env)
        tpls == DiscoverTemplatesFull(p, inv, env)
        all == <<"VMs", "Networks", "Storage", "ResourcePools", "Templates">>
    IN  IF vms.panic THEN DiscoverPanic(SubSeq(all, 1, 1))
        ELSE IF vms.err # NilErr
             THEN DiscoverFail("failed to discover VMs", SubSeq(all, 1, 1))
        ELSE IF nets.panic THEN DiscoverPanic(SubSeq(all, 1, 2))
        ELSE IF nets.err # NilErr
             THEN DiscoverFail("failed to discover networks", SubSeq(all, 1, 2))
        ELSE IF sto.panic THEN DiscoverPanic(SubSeq(all, 1, 3))
        ELSE IF sto.err # NilErr
             THEN DiscoverFail("failed to discover storage", SubSeq(all, 1, 3))
        ELSE IF rps.panic THEN DiscoverPanic(SubSeq(all, 1, 4))
        ELSE IF tpls.panic THEN DiscoverPanic(all)
        ELSE DiscoverOk(
                Infrastructure(p, vms.val, nets.val, sto.val,
                               ValOrNil(rps), ValOrNil(tpls),
                               Len(vms.val) + Len(nets.val) + Len(sto.val)
                                 + Len(ValOrNil(rps)) + Len(ValOrNil(tpls))),
                all)

\* Discover of the simple build: every DiscoverX error (VMs included) is
\* logged and skipped; resource pools and templates are not discovered.
DiscoverSimple(p, inv, env) ==
    IF ~p.connected THEN DiscoverFail("not connected to vCenter", <<>>)
    ELSE
    LET vms == DiscoverVMsSimple(p, inv, DiscoverFilters(p), env)
        nets == DiscoverNetworks(p, env)
        sto == DiscoverStorage(p, env)
        all == <<"VMs", "Networks", "Storage">>
    IN  IF vms.panic THEN DiscoverPanic(SubSeq(all, 1, 1))
        ELSE IF nets.panic THEN DiscoverPanic(SubSeq(all, 1, 2))
        ELSE IF sto.panic THEN DiscoverPanic(all)
        ELSE DiscoverOk(
                Infrastructure(p, ValOrNil(vms), ValOrNil(nets), ValOrNil(sto),
                               <<>>, <<>>,
                               Len(ValOrNil(vms)) + Len(ValOrNil(nets))
                                 + Len(ValOrNil(sto))),
                all)

\* Provider.Discover of the build linked.
Discover(p, inv, env) ==
    IF impl = "full" THEN DiscoverFull(p, inv, env) ELSE DiscoverSimple(p, inv, env)

(***************************************************************************)
(* What a provider call left behind, for the caller.                       *)
(***************************************************************************)
NoRet ==
    [op |-> "none", err |-> NilErr, val |-> <<>>, panic |-> FALSE,
     calls |-> <<>>, env |-> NoFailure, logout |-> FALSE]

Returned(op, r, env) ==
    [op |-> op, err |-> r.err, val |-> r.val, panic |-> r.panic,
     calls |-> <<>>, env |-> env, logout |-> FALSE]

\* A provider on which ConnectVMware has succeeded.
ConnectedProvider ==
    ConnectVMware(NewVMwareProvider,
                  [Server |-> "vc1", Datacenter |-> "", Cluster |-> ""], "ok").p

EngineIdle ==
    /\ config = [vmware |-> NoConfig, proxmox |-> "", nutanix |-> ""]
    /\ pc = "idle"
    /\ events = <<>>
    /\ pending = <<>>
    /\ allResults = <<>>
    /\ errors = <<>>
    /\ result = <<>>

(***************************************************************************)
(* SpecFilter: DiscoverVMs on a connected provider, for every VM list and  *)
(* every filter record of the bounded input space.                         *)
(***************************************************************************)
\* No name is being sanitized.
NameIdle == name = <<>> /\ resourceName = <<>> /\ resourceAgain = <<>>

\* No generator has been built.
GenIdle == generator = "" /\ snapshots = <<>> /\ outputDir = "" /\ runs = <<>>

\* No discover command is running.
CliIdle ==
    /\ cliOpts = [Providers |-> <<>>, DryRun |-> FALSE]
    /\ cliPc = [at |-> "idle", i |-> 0]
    /\ cliEvents = <<>>
    /\ cliResults = <<>>
    /\ cliRet = <<>>

\* No validate command is running.
ValIdle ==
    /\ valOpts = [Format |-> "auto"]
    /\ valNode = [kind |-> "missing"]
    /\ valPc = "idle"
    /\ valResults = <<>>
    /\ valErr = "nil"
    /\ valRet = <<>>

\* No snapshot file is being written or read.
JsonIdle == jsonIn = <<>> /\ jsonDoc = <<>> /\ jsonOut = <<>>

InitFilter ==
    /\ impl \in {"full", "simple"}
    /\ provider = ConnectedProvider
    /\ logins = 1
    /\ logouts = 0
    /\ connectsOk = 1
    /\ inventory \in Inventories
    /\ filters \in FilterSpace
    /\ ret = NoRet
    /\ ncalls = 0
    /\ EngineIdle
    /\ NameIdle /\ GenIdle /\ CliIdle /\ ValIdle /\ JsonIdle

FilterDiscoverVMs ==
    /\ ncalls = 0
    /\ \E env \in {e \in Envs : ~e.net /\ ~e.sto /\ ~e.rp /\ ~e.tpl} :
          ret' = Returned("DiscoverVMs",
                          DiscoverVMs(provider, inventory, filters, env), env)
    /\ ncalls' = 1
    /\ UNCHANGED <<impl, provider, logins, logouts, connectsOk, inventory, filters>>
    /\ UNCHANGED <<engineVars, toolVars>>

NextFilter == FilterDiscoverVMs

SpecFilter == InitFilter /\ [][NextFilter]_vars

\* The ids of a list of VMs (platform objects or model values), in order.
IdsOf(s) == [i \in 1..Len(s) |-> IF "ID" \in DOMAIN s[i] THEN s[i].ID ELSE s[i].id]

\* A VM the build in use can read: the simple build reads each VM's
\* properties on its own and skips a VM whose read fails.
Readable(mo) == impl = "simple" => mo.propsOk

\* Only powerState is set in the filter record.
OnlyPowerState(f) == f.PowerState # "" /\ f = [NoFilters EXCEPT !.PowerState = f.PowerState]

\* A DiscoverVMs call has returned without error.
DiscoverVMsReturned == ret.op = "DiscoverVMs" /\ ret.err = NilErr

(***************************************************************************)
(* Claims about the DiscoverVMs filter (SpecFilter).                       *)
(***************************************************************************)
\* What vCenter says about a VM and one filter record: every supplied field
\* among datacenter, cluster, host, resourcePool, folder, powerState, tags
\* and names is satisfied.
SatisfiesEveryField(mo, f) ==
    /\ (f.Datacenter # "" => mo.datacenter = f.Datacenter)
    /\ (f.Cluster # "" => mo.cluster = f.Cluster)
    /\ (f.Host # "" => mo.host = f.Host)
    /\ (f.ResourcePool # "" => mo.resourcePool = f.ResourcePool)
    /\ (f.Folder # "" => mo.folder = f.Folder)
    /\ (f.PowerState # "" => mo.powerState = f.PowerState)
    /\ (\A i \in 1..Len(f.Tags) : f.Tags[i] \in mo.tags)
    /\ (Len(f.Names) > 0 =>
            \E i \in 1..Len(f.Names) : Contains(ToLower(mo.name), ToLower(f.Names[i])))

\* C9: DiscoverVMs applies the filter record as a conjunction over
\* datacenter, cluster, host, resourcePool, folder, powerState, tags and
\* names: a VM (readable, and not left out as a template) is returned if and
\* only if it satisfies every supplied field; no set field is ignored.
C9_FilterConjunction ==
    DiscoverVMsReturned =>
        \A i \in 1..Len(inventory) :
            LET mo == inventory[i] IN
            (Readable(mo) /\ (IsTemplate(mo) => filters.IncludeTemplates)) =>
                ((\E j \in 1..Len(ret.val) : ret.val[j].ID = mo.id)
                    <=> SatisfiesEveryField(mo, filters))

NoOtherFilter(f) == f = [NoFilters EXCEPT !.IncludeTemplates = f.IncludeTemplates]

CallerConfigs ==
    {[Server |-> "vc1", Datacenter |-> dc, Cluster |-> ""] : dc \in {"", "dc1"}}

\* The platform failures that can matter to one operation.
EnvsFor(flags) == {e \in Envs : \A k \in DOMAIN e : e[k] => k \in flags}

InitProvider ==
    /\ impl \in {"full", "simple"}
    /\ provider = NewVMwareProvider
    /\ logins = 0
    /\ logouts = 0
    /\ connectsOk = 0
    /\ inventory \in {s \in Inventories : Len(s) = MaxVMs /\ s[1] = VMWeb}
    /\ filters = NoFilters
    /\ ret = NoRet
    /\ ncalls = 0
    /\ EngineIdle
    /\ NameIdle /\ GenIdle /\ CliIdle /\ ValIdle /\ JsonIdle

CanCall == ncalls < MaxCalls /\ ~ret.panic

CallConnect ==
    /\ CanCall
    /\ \E cfg \in CallerConfigs : \E outcome \in ConnectOutcomes(cfg) :
          LET r == ConnectVMware(provider, cfg, outcome) IN
          /\ provider' = r.p
          /\ logins' = logins + (IF r.login THEN 1 ELSE 0)
          /\ connectsOk' = connectsOk + (IF r.err = NilErr THEN 1 ELSE 0)
          /\ ret' = [NoRet EXCEPT !.op = "Connect", !.err = r.err]
    /\ ncalls' = ncalls + 1
    /\ UNCHANGED <<impl, logouts, inventory, filters>>
    /\ UNCHANGED <<engineVars, toolVars>>

CallDisconnect ==
    /\ CanCall
    /\ \E logoutFails \in BOOLEAN :
          LET r == Disconnect(provider, logoutFails) IN
          /\ provider' = r.p
          /\ logouts' = logouts + (IF r.logout THEN 1 ELSE 0)
          /\ ret' = [NoRet EXCEPT !.op = "Disconnect", !.err = r.err,
                                  !.logout = r.logout]
    /\ ncalls' = ncalls + 1
    /\ UNCHANGED <<impl, logins, connectsOk, inventory, filters>>
    /\ UNCHANGED <<engineVars, toolVars>>

CallDiscover ==
    /\ CanCall
    /\ \E env \in Envs :
          LET r == Discover(provider, inventory, env) IN
          ret' = [NoRet EXCEPT !.op = "Discover", !.err = r.err, !.val = r.infra,
                               !.panic = r.panic, !.calls = r.calls, !.env = env]
    /\ ncalls' = ncalls + 1
    /\ UNCHANGED <<impl, provider, logins, logouts, connectsOk, inventory, filters>>
    /\ UNCHANGED <<engineVars, toolVars>>

CallDiscoverVMs ==
    /\ CanCall
    /\ \E env \in EnvsFor({"vmList", "vmRetrieve"}) :
          ret' = Returned("DiscoverVMs",
                          DiscoverVMs(provider, inventory, filters, env), env)
    /\ ncalls' = ncalls + 1
    /\ UNCHANGED <<impl, provider, logins, logouts, connectsOk, inventory, filters>>
    /\ UNCHANGED <<engineVars, toolVars>>

CallDiscoverNetworks ==
    /\ CanCall
    /\ \E env \in EnvsFor({"net"}) :
          ret' = Returned("DiscoverNetworks", DiscoverNetworks(provider, env), env)
    /\ ncalls' = ncalls + 1
    /\ UNCHANGED <<impl, provider, logins, logouts, connectsOk, inventory, filters>>
    /\ UNCHANGED <<engineVars, toolVars>>

CallDiscoverStorage ==
    /\ CanCall
    /\ \E env \in EnvsFor({"sto"}) :
          ret' = Returned("DiscoverStorage", DiscoverStorage(provider, env), env)
    /\ ncalls' = ncalls + 1
    /\ UNCHANGED <<impl, provider, logins, logouts, connectsOk, inventory, filters>>
    /\ UNCHANGED <<engineVars, toolVars>>

CallDiscoverResourcePools ==
    /\ CanCall
    /\ \E env \in EnvsFor({"rp"}) :
          ret' = Returned("DiscoverResourcePools",
                          DiscoverResourcePools(provider, env), env)
    /\ ncalls' = ncalls + 1
    /\ UNCHANGED <<impl, provider, logins, logouts, connectsOk, inventory, filters>>
    /\ UNCHANGED <<engineVars, toolVars>>

CallDiscoverTemplates ==
    /\ CanCall
    /\ \E env \in EnvsFor({"tpl"}) :
          ret' = Returned("DiscoverTemplates",
                          DiscoverTemplates(provider, inventory, env), env)
    /\ ncalls' = ncalls + 1
    /\ UNCHANGED <<impl, provider, logins, logouts, connectsOk, inventory, filters>>
    /\ UNCHANGED <<engineVars, toolVars>>

NextProvider ==
    \/ CallConnect
    \/ CallDisconnect
    \/ CallDiscover
    \/ CallDiscoverVMs
    \/ CallDiscoverNetworks
    \/ CallDiscoverStorage
    \/ CallDiscoverResourcePools
    \/ CallDiscoverTemplates

SpecProvider == InitProvider /\ [][NextProvider]_vars

(***************************************************************************)
(* Claims about the provider (SpecProvider).                               *)
(***************************************************************************)
DiscoveryOps ==
    {"Discover", "DiscoverVMs", "DiscoverNetworks", "DiscoverStorage",
     "DiscoverResourcePools", "DiscoverTemplates"}

\* C4: a discovery method called before any Connect has succeeded on the
\* instance fails with the NotConnected error value: no result, no crash.
C4_NotConnectedBeforeConnect ==
    (ret.op \in DiscoveryOps /\ connectsOk = 0) =>
        /\ ~ret.panic
        /\ ret.err = "not connected to vCenter"
        /\ ret.val = <<>>

\* The last step was a Disconnect call.
DisconnectStep == ncalls' = ncalls + 1 /\ ret'.op = "Disconnect"

\* C5: Disconnect on a provider that is not connected (never connected,
\* Connect failed, already disconnected) changes nothing, logs nobody out
\* and returns nil; and the logouts never outnumber the successful Connects,
\* however many times Disconnect is called.
C5_DisconnectSafe ==
    /\ [](logouts <= connectsOk)
    /\ [][(DisconnectStep /\ ~IsConnected(provider)) =>
              /\ provider' = provider
              /\ logouts' = logouts
              /\ ret'.err = NilErr]_vars

\* C5 witness: after one successful Connect and one logout, a further
\* Disconnect was a no-op.
C5_Witness ==
    /\ connectsOk = 1
    /\ logouts = 1
    /\ ret.op = "Disconnect"
    /\ ~ret.logout
    /\ ret.err = NilErr

\* A Discover call was made on a connected provider.
DiscoverRan == ret.op = "Discover" /\ provider.connected

\* The DiscoverVMs call inside the last Discover failed.
VMDiscoveryFailed == ret.env.vmList \/ (impl = "full" /\ ret.env.vmRetrieve)

\* C6: inside Discover a failure of VM discovery is a hard error: Discover
\* returns an error and no snapshot, and discovers no later resource type.
C6_VMFailureIsHard ==
    (DiscoverRan /\ VMDiscoveryFailed) =>
        /\ ret.err # NilErr
        /\ ret.val = <<>>
        /\ ret.calls = <<"VMs">>

\* The keys Discover always writes into Metadata.
BasicMetadataKeys == {"total_resources", "discovery_duration"}

\* C7: Discover goes through VMs, Networks, Storage, ResourcePools and
\* Templates in that order, and a failure of resource-pool or template
\* discovery does not abort it: the snapshot is returned without error and
\* its Metadata records the failure.
C7_SecondaryFailureRecorded ==
    (DiscoverRan /\ ~VMDiscoveryFailed /\ ~ret.env.net /\ ~ret.env.sto) =>
        /\ ret.calls = <<"VMs", "Networks", "Storage", "ResourcePools", "Templates">>
        /\ ((ret.env.rp \/ ret.env.tpl) =>
                /\ ret.err = NilErr
                /\ Len(ret.val) = 1
                /\ \E k \in DOMAIN ret.val[1].Metadata : k \notin BasicMetadataKeys)

\* C8: VMs are the only hard-fail resource type: when network or storage
\* discovery fails after VM discovery succeeded, Discover returns the
\* snapshot and no error.
C8_OnlyVMsHardFail ==
    (DiscoverRan /\ ~VMDiscoveryFailed /\ (ret.env.net \/ ret.env.sto)) =>
        /\ ret.err = NilErr
        /\ Len(ret.val) = 1

\* The platform calls of one Discover, in the order it makes them.
PlatformCallOrder == <<"vmList", "vmRetrieve", "net", "sto", "rp", "tpl">>

\* The context's deadline expired while Discover ran: from some platform
\* call on, every call fails with the context's error; none failed before.
DeadlineExpiredDuring(env) ==
    \E k \in 1..Len(PlatformCallOrder) :
        \A i \in 1..Len(PlatformCallOrder) :
            env[PlatformCallOrder[i]] = (i >= k)

\* C24: a Discover during which the deadline expired returns an error and
\* no snapshot built from the calls that timed out.
C24_DeadlineFailsDiscovery ==
    (DiscoverRan /\ DeadlineExpiredDuring(ret.env)) =>
        /\ ret.err # NilErr
        /\ ret.val = <<>>

(***************************************************************************)
(* The discovery engine.  DiscoverAll runs as a sequence of steps: for     *)
(* each platform in turn (VMware, Proxmox, Nutanix) the platform is        *)
(* skipped when its server is empty, and discovered otherwise.             *)
(* DiscoverVMware itself is three steps: connect, discover, and the        *)
(* deferred Disconnect, which runs when the function returns.              *)
(***************************************************************************)
EngineConfigs ==
    [vmware : [Server : {"", "vc1"}, Datacenter : {"", "dc1"}, Cluster : {""}],
     proxmox : {"", "px1"},
     nutanix : {"", "nx1"}]

\* DiscoverProxmox / DiscoverNutanix: a placeholder snapshot, never an error.
Placeholder(platform, server) ==
    [Provider |-> platform, Server |-> server,
     Datacenter |-> "", Cluster |-> "",
     VirtualMachines |-> <<>>, Networks |-> <<>>, Storage |-> <<>>,
     ResourcePools |-> <<>>, Templates |-> <<>>,
     Metadata |-> [status |-> "not_implemented", message |-> "next phase"]]

DiscoverProxmox(server) == [infras |-> <<Placeholder("proxmox", server)>>, err |-> NilErr]

DiscoverNutanix(server) == [infras |-> <<Placeholder("nutanix", server)>>, err |-> NilErr]

\* DiscoverVMware without the defer: Disconnect is called on the success
\* path only.
AfterDiscoverNoDefer(err) == IF err # NilErr THEN "vmware_return" ELSE "vmware_deferred"

\* Where DiscoverVMware goes once provider.Discover has returned: the
\* Disconnect deferred after the successful connect runs on both paths.
AfterDiscover(err) == "vmware_deferred"

\* DiscoverAll giving up at the first platform error.
AfterPlatformAbort(next, err) == IF err # NilErr THEN "finish" ELSE next

\* Where DiscoverAll goes after a platform: on to the next one, error or not.
AfterPlatform(next, err) == next

\* DiscoverAll failing as soon as one platform has failed.
DiscoverAllResultStrict(results, errs) ==
    IF Len(errs) > 0
    THEN [infras |-> <<>>, err |-> "all provider discoveries failed"]
    ELSE [infras |-> results, err |-> NilErr]

\* The end of DiscoverAll: the aggregate error only when there are errors
\* and no snapshot at all; otherwise the snapshots, and no error.
DiscoverAllResult(results, errs) ==
    IF Len(errs) > 0 /\ Len(results) = 0
    THEN [infras |-> <<>>, err |-> "all provider discoveries failed"]
    ELSE [infras |-> results, err |-> NilErr]

\* DiscoverAll's handling of one platform's return value.
Collect(r, label) ==
    IF r.err # NilErr
    THEN /\ errors' = Append(errors, label)
         /\ allResults' = allResults
    ELSE /\ allResults' = allResults \o r.infras
         /\ errors' = errors

Init ==
    /\ impl \in {"full", "simple"}
    /\ provider = NewVMwareProvider
    /\ logins = 0
    /\ logouts = 0
    /\ connectsOk = 0
    /\ inventory \in Inventories
    /\ filters = NoFilters
    /\ ret = NoRet
    /\ ncalls = 0
    /\ config \in EngineConfigs
    /\ pc = "idle"
    /\ events = <<>>
    /\ pending = <<>>
    /\ allResults = <<>>
    /\ errors = <<>>
    /\ result = <<>>
    /\ NameIdle /\ GenIdle /\ CliIdle /\ ValIdle /\ JsonIdle

unchangedProvider ==
    UNCHANGED <<impl, provider, logins, logouts, connectsOk, inventory, filters,
                ret, ncalls>>

\* DiscoverAll is called.
DiscoverAllStart ==
    /\ pc = "idle"
    /\ pc' = "vmware"
    /\ UNCHANGED <<toolVars, config, events, pending, allResults, errors, result>>
    /\ unchangedProvider

\* vmwareConfig.Server == "": VMware is not configured.
VMwareSkip ==
    /\ pc = "vmware"
    /\ config.vmware.Server = ""
    /\ pc' = "proxmox"
    /\ UNCHANGED <<toolVars, config, events, pending, allResults, errors, result>>
    /\ unchangedProvider

\* DiscoverVMware: NewVMwareProvider, then ConnectVMware; an error returns
\* at once (nothing is deferred yet).
VMwareConnect ==
    /\ pc = "vmware"
    /\ config.vmware.Server # ""
    /\ \E outcome \in ConnectOutcomes(config.vmware) :
          LET r == ConnectVMware(NewVMwareProvider, config.vmware, outcome) IN
          /\ provider' = r.p
          /\ logins' = logins + (IF r.login THEN 1 ELSE 0)
          /\ connectsOk' = connectsOk + (IF r.err = NilErr THEN 1 ELSE 0)
          /\ IF r.err # NilErr
             THEN /\ events' = Append(events, "connect_err")
                  /\ pending' = <<[infras |-> <<>>, err |-> "failed to connect to VMware"]>>
                  /\ pc' = "vmware_return"
             ELSE /\ events' = Append(events, "connect_ok")
                  /\ pending' = <<>>
                  /\ pc' = "vmware_discover"
    /\ UNCHANGED <<impl, logouts, inventory, filters, ret, ncalls>>
    /\ UNCHANGED <<toolVars, config, allResults, errors, result>>

\* DiscoverVMware: provider.Discover.
VMwareDiscover ==
    /\ pc = "vmware_discover"
    /\ \E env \in Envs :
          LET r == Discover(provider, inventory, env) IN
          /\ IF r.err # NilErr
             THEN /\ events' = Append(events, "discover_err")
                  /\ pending' = <<[infras |-> <<>>, err |-> "VMware discovery failed"]>>
             ELSE /\ events' = Append(events, "discover_ok")
                  /\ pending' = <<[infras |-> r.infra, err |-> NilErr]>>
          /\ pc' = AfterDiscover(r.err)
    /\ UNCHANGED <<toolVars, config, allResults, errors, result>>
    /\ unchangedProvider

\* DiscoverVMware: the deferred provider.Disconnect().
VMwareDeferredDisconnect ==
    /\ pc = "vmware_deferred"
    /\ \E logoutFails \in BOOLEAN :
          LET r == Disconnect(provider, logoutFails) IN
          /\ provider' = r.p
          /\ logouts' = logouts + (IF r.logout THEN 1 ELSE 0)
    /\ events' = Append(events, "disconnect")
    /\ pc' = "vmware_return"
    /\ UNCHANGED <<impl, logins, connectsOk, inventory, filters, ret, ncalls>>
    /\ UNCHANGED <<toolVars, config, pending, allResults, errors, result>>

\* DiscoverVMware has returned; DiscoverAll files the error or the snapshots.
VMwareReturn ==
    /\ pc = "vmware_return"
    /\ Collect(pending[1], "VMware discovery failed")
    /\ pending' = <<>>
    /\ pc' = AfterPlatform("proxmox", pending[1].err)
    /\ UNCHANGED <<toolVars, config, events, result>>
    /\ unchangedProvider

ProxmoxSkip ==
    /\ pc = "proxmox"
    /\ config.proxmox = ""
    /\ pc' = "nutanix"
    /\ UNCHANGED <<toolVars, config, events, pending, allResults, errors, result>>
    /\ unchangedProvider

ProxmoxDiscover ==
    /\ pc = "proxmox"
    /\ config.proxmox # ""
    /\ LET r == DiscoverProxmox(config.proxmox) IN
          /\ Collect(r, "Proxmox discovery failed")
          /\ pc' = AfterPlatform("nutanix", r.err)
    /\ events' = Append(events, "proxmox")
    /\ UNCHANGED <<toolVars, config, pending, result>>
    /\ unchangedProvider

NutanixSkip ==
    /\ pc = "nutanix"
    /\ config.nutanix = ""
    /\ pc' = "finish"
    /\ UNCHANGED <<toolVars, config, events, pending, allResults, errors, result>>
    /\ unchangedProvider

NutanixDiscover ==
    /\ pc = "nutanix"
    /\ config.nutanix # ""
    /\ LET r == DiscoverNutanix(config.nutanix) IN
          /\ Collect(r, "Nutanix discovery failed")
          /\ pc' = AfterPlatform("finish", r.err)
    /\ events' = Append(events, "nutanix")
    /\ UNCHANGED <<toolVars, config, pending, result>>
    /\ unchangedProvider

\* DiscoverAll returns.
DiscoverAllFinish ==
    /\ pc = "finish"
    /\ result' = <<DiscoverAllResult(allResults, errors)>>
    /\ pc' = "done"
    /\ UNCHANGED <<toolVars, config, events, pending, allResults, errors>>
    /\ unchangedProvider

Next ==
    \/ DiscoverAllStart
    \/ VMwareSkip
    \/ VMwareConnect
    \/ VMwareDiscover
    \/ VMwareDeferredDisconnect
    \/ VMwareReturn
    \/ ProxmoxSkip
    \/ ProxmoxDiscover
    \/ NutanixSkip
    \/ NutanixDiscover
    \/ DiscoverAllFinish

Spec == Init /\ [][Next]_vars

(***************************************************************************)
(* Claims about the engine (Spec).                                         *)
(***************************************************************************)
Has(e) == \E i \in 1..Len(events) : events[i] = e

Count(e) == Cardinality({i \in 1..Len(events) : events[i] = e})

\* The platforms with a non-empty server address.
Configured ==
    (IF config.vmware.Server # "" THEN {"vmware"} ELSE {})
        \cup (IF config.proxmox # "" THEN {"proxmox"} ELSE {})
        \cup (IF config.nutanix # "" THEN {"nutanix"} ELSE {})

\* What each platform's discovery did, read off the record of the run.
PlatformFailed(q) == q = "vmware" /\ (Has("connect_err") \/ Has("discover_err"))

PlatformSucceeded(q) ==
    \/ q = "vmware" /\ Has("discover_ok")
    \/ q = "proxmox" /\ Has("proxmox")
    \/ q = "nutanix" /\ Has("nutanix")

\* The platforms that succeeded, in DiscoverAll's order.
SucceededInOrder ==
    SelectSeq(<<"vmware", "proxmox", "nutanix">>,
              LAMBDA q : q \in Configured /\ PlatformSucceeded(q))

ProvidersOf(infras) == [i \in 1..Len(infras) |-> infras[i].Provider]

Done == pc = "done"

\* C1: failure isolation.  When at least one configured platform failed and
\* at least one succeeded, every configured platform was run, DiscoverAll
\* returns exactly the snapshots of the platforms that succeeded, and it
\* returns no error.
C1_FailureIsolation ==
    (/\ Done
     /\ \E q \in Configured : PlatformFailed(q)
     /\ \E q \in Configured : ~PlatformFailed(q)) =>
        /\ \A q \in Configured : PlatformFailed(q) \/ PlatformSucceeded(q)
        /\ result[1].err = NilErr
        /\ ProvidersOf(result[1].infras) = SucceededInOrder

\* C1 witness: VMware failed, Proxmox ran after it, and DiscoverAll returned
\* Proxmox's snapshot alone, without error.
C1_Witness ==
    /\ Done
    /\ PlatformFailed("vmware")
    /\ Has("proxmox")
    /\ result[1].err = NilErr
    /\ ProvidersOf(result[1].infras) = <<"proxmox">>

\* C2 as stated: DiscoverAll returns the aggregate error, and no snapshots,
\* exactly when every configured platform failed.
C2_ErrorIffAllFailed ==
    Done =>
        ((result[1].err # NilErr /\ result[1].infras = <<>>)
            <=> (\A q \in Configured : PlatformFailed(q)))

\* C2 as amended: DiscoverAll returns the aggregate error, and no snapshots,
\* exactly when at least one platform is configured and every configured
\* platform failed; it never returns an error when a configured platform
\* produced a snapshot.
C2_ErrorIffConfiguredAndAllFailed ==
    Done =>
        /\ (result[1].err # NilErr /\ result[1].infras = <<>>)
              <=> (Configured # {} /\ \A q \in Configured : PlatformFailed(q))
        /\ ((\E q \in Configured : PlatformSucceeded(q)) => result[1].err = NilErr)

\* C2 witness: the only configured platform failed and DiscoverAll returned
\* the aggregate error with no snapshots.
C2_Witness ==
    /\ Done
    /\ Configured = {"vmware"}
    /\ PlatformFailed("vmware")
    /\ result[1].err = "all provider discoveries failed"
    /\ result[1].infras = <<>>

\* DiscoverVMware has returned to DiscoverAll.
VMwareReturned ==
    /\ events # <<>>
    /\ pc \in {"vmware_return", "proxmox", "nutanix", "finish", "done"}

\* C3: in DiscoverVMware a successful connect is followed by exactly one
\* Disconnect before the call returns, whether Discover succeeded or returned
\* an error; the session is logged out and the provider left disconnected.
C3_DisconnectOncePerConnect ==
    (VMwareReturned /\ Has("connect_ok")) =>
        /\ Count("disconnect") = 1
        /\ \E i, j, k \in 1..Len(events) :
              /\ i < j /\ j < k
              /\ events[i] = "connect_ok"
              /\ events[j] \in {"discover_ok", "discover_err"}
              /\ events[k] = "disconnect"
        /\ logouts = 1
        /\ ~provider.connected

\* C3 witness: Discover returned an error after a successful connect, and
\* Disconnect ran once before DiscoverVMware returned.
C3_Witness ==
    /\ pc = "vmware_return"
    /\ Has("connect_ok")
    /\ Has("discover_err")
    /\ Count("disconnect") = 1
    /\ logouts = 1


\* C30: once DiscoverVMware has returned, every session a successful login
\* opened has been closed by a logout.
C30_NoSessionLeak ==
    pc \in {"proxmox", "nutanix", "finish", "done"} => logouts = logins

(***************************************************************************)
(* BaseGenerator.GenerateResourceName.  A name is a sequence of            *)
(* one-character strings; "\t" is the tab character.                       *)
(***************************************************************************)
MaxNameLen == 3    \* longest name explored character by character

\* strings.ReplaceAll(s, old, new) for one-character old and new
ReplaceAll(s, old, new) == [i \in 1..Len(s) |-> IF s[i] = old THEN new ELSE s[i]]

\* c is in 'a'..'z'
IsLowerLetter(c) == c \in LowerLetters

ResPrefix == <<"r", "e", "s", "_">>

\* GenerateResourceName with a prefix that does not itself start with a letter.
GenerateResourceNameUnderscore(n) ==
    LET r == ToLower(ReplaceAll(ReplaceAll(ReplaceAll(n, " ", "_"), "-", "_"), ".", "_"))
    IN  IF Len(r) > 0 /\ ~IsLowerLetter(r[1]) THEN <<"_">> \o r ELSE r

\* GenerateResourceName: " ", "-" and "." become "_", the result is
\* lowercased, and "res_" is put in front when it does not start with a..z.
GenerateResourceName(n) ==
    LET r == ToLower(ReplaceAll(ReplaceAll(ReplaceAll(n, " ", "_"), "-", "_"), ".", "_"))
    IN  IF Len(r) > 0 /\ ~IsLowerLetter(r[1]) THEN ResPrefix \o r ELSE r

\* The characters names are built from, and the spec's own example.
NameAlphabet == {"W", "e", "b", " ", "-", ".", "0", "\t"}

WebServer01 == <<"W", "e", "b", " ", "S", "e", "r", "v", "e", "r", "-", "0", "1">>

NameInputs ==
    UNION {[1..n -> NameAlphabet] : n \in 0..MaxNameLen} \cup {WebServer01}

InitName ==
    /\ name \in NameInputs
    /\ resourceName = <<>>
    /\ resourceAgain = <<>>
    /\ impl = "simple"
    /\ provider = NewVMwareProvider
    /\ logins = 0
    /\ logouts = 0
    /\ connectsOk = 0
    /\ inventory = <<>>
    /\ filters = NoFilters
    /\ ret = NoRet
    /\ ncalls = 0
    /\ EngineIdle
    /\ GenIdle /\ CliIdle /\ ValIdle /\ JsonIdle

\* resourceName := GenerateResourceName(name)
Sanitize ==
    /\ resourceName = <<>>
    /\ resourceName' = <<GenerateResourceName(name)>>
    /\ UNCHANGED <<name, resourceAgain>>
    /\ UNCHANGED <<providerVars, engineVars, genVars, cliVars, valVars, jsonVars>>

\* resourceAgain := GenerateResourceName(resourceName)
SanitizeAgain ==
    /\ resourceName # <<>>
    /\ resourceAgain = <<>>
    /\ resourceAgain' = <<GenerateResourceName(resourceName[1])>>
    /\ UNCHANGED <<name, resourceName>>
    /\ UNCHANGED <<providerVars, engineVars, genVars, cliVars, valVars, jsonVars>>

NextName == Sanitize \/ SanitizeAgain

SpecName == InitName /\ [][NextName]_vars

(***************************************************************************)
(* Claims about GenerateResourceName (SpecName).                           *)
(***************************************************************************)
WebServer01Sanitized ==
    <<"w", "e", "b", "_", "s", "e", "r", "v", "e", "r", "_", "0", "1">>

\* C12: sanitizing a sanitized name changes nothing, and "Web Server-01"
\* sanitizes to "web_server_01".
C12_SanitizeIdempotent ==
    /\ (resourceAgain # <<>> => resourceAgain = resourceName)
    /\ ((resourceName # <<>> /\ name = WebServer01) =>
            resourceName[1] = WebServer01Sanitized)

\* C12 witness: a name that needed the prefix was sanitized twice.
C12_Witness ==
    /\ resourceAgain # <<>>
    /\ Len(name) > 0
    /\ Len(resourceName[1]) > Len(name)

IsWhitespace(c) == c \in {" ", "\t"}

\* The name the specification describes: whitespace, hyphen and dot replaced
\* by underscore, letters lowercased, prefixed when the first character of
\* that is not a lowercase letter.
SanitizedAsSpecified(n) ==
    LET r == ToLower([i \in 1..Len(n) |->
                 IF IsWhitespace(n[i]) \/ n[i] \in {"-", "."} THEN "_" ELSE n[i]])
    IN  IF Len(r) > 0 /\ ~IsLowerLetter(r[1]) THEN ResPrefix \o r ELSE r

\* C13: GenerateResourceName returns the name as the specification describes
\* it, so its output holds no whitespace, hyphen or dot.
C13_SanitizedAsSpecified ==
    resourceName # <<>> =>
        /\ resourceName[1] = SanitizedAsSpecified(name)
        /\ \A i \in 1..Len(resourceName[1]) :
              ~IsWhitespace(resourceName[1][i]) /\ resourceName[1][i] \notin {"-", "."}


(***************************************************************************)
(* The generators.  A snapshot handed to Generate carries the fields the   *)
(* generators read: Provider, Server, Datacenter, Cluster, the VMs with    *)
(* their template flag, disks (Datastore) and network cards (Network), and *)
(* the Networks and Storage names.  Strings the code transforms are        *)
(* sequences of one-character strings.                                     *)
(***************************************************************************)
MaxSnapshots == 2   \* longest snapshot list handed to Generate

VMNetwork == <<"V", "M", " ", "N", "e", "t", "w", "o", "r", "k">>
VMNetworkHyphen == <<"V", "M", "-", "N", "e", "t", "w", "o", "r", "k">>
Datastore1 == <<"d", "a", "t", "a", "s", "t", "o", "r", "e", "1">>
Datastore2 == <<"D", "S", ".", "2">>

GenWeb ==
    [Name |-> <<"w", "e", "b", "-", "0", "1">>, Template |-> FALSE,
     Disks |-> <<[Datastore |-> Datastore1]>>,
     NetworkCards |-> <<[Network |-> VMNetwork]>>]

GenApp ==
    [Name |-> <<"A", "p", "p">>, Template |-> FALSE,
     Disks |-> <<[Datastore |-> Datastore2], [Datastore |-> Datastore1]>>,
     NetworkCards |-> <<[Network |-> VMNetworkHyphen], [Network |-> VMNetwork]>>]

GenTemplate ==
    [Name |-> <<"t", "p", "l">>, Template |-> TRUE,
     Disks |-> <<[Datastore |-> Datastore1]>>,
     NetworkCards |-> <<[Network |-> VMNetwork]>>]

\* A VM as the simple build's DiscoverVMs returns it: no disks, no cards.
GenBare ==
    [Name |-> <<"d", "b", " ", "1">>, Template |-> FALSE,
     Disks |-> <<>>, NetworkCards |-> <<>>]

\* A second VM whose name differs from GenWeb's in case and punctuation only,
\* with a card attached to no network.
GenWebTwin ==
    [Name |-> <<"W", "e", "b", ".", "0", "1">>, Template |-> FALSE,
     Disks |-> <<[Datastore |-> Datastore1]>>,
     NetworkCards |-> <<[Network |-> <<>>]>>]

GenVMs == {GenWeb, GenApp, GenTemplate, GenBare}

GenVMLists ==
    {s \in UNION {[1..n -> GenVMs] : n \in 0..MaxVMs} :
        \A i, j \in 1..Len(s) : i # j => s[i] # s[j]}

ProviderVMware == <<"v", "m", "w", "a", "r", "e">>
ProviderVMwareMixed == <<"V", "M", "w", "a", "r", "e">>
ProviderVSphere == <<"v", "s", "p", "h", "e", "r", "e">>
ProviderProxmox == <<"p", "r", "o", "x", "m", "o", "x">>
ProviderNutanix == <<"n", "u", "t", "a", "n", "i", "x">>
ProviderUnknown == <<"h", "y", "p", "e", "r", "v">>

GenServer == <<"v", "c", ".", "1">>

Snapshot(prov, vms) ==
    [Provider |-> prov, Server |-> GenServer, Datacenter |-> <<"d", "c", "1">>,
     Cluster |-> <<"c", "l", "1">>, VirtualMachines |-> vms,
     Networks |-> <<>>, Storage |-> <<>>]

\* A snapshot discovered with no cluster configured.
SnapshotNoCluster(vms) == [Snapshot(ProviderVMware, vms) EXCEPT !.Cluster = <<>>]

GenSnapshots ==
    {Snapshot(ProviderVMware, vms) : vms \in GenVMLists \ {<<>>}}
        \cup {Snapshot(ProviderVMwareMixed, <<>>), Snapshot(ProviderProxmox, <<>>),
              Snapshot(ProviderUnknown, <<>>)}
        \cup {Snapshot(ProviderVMware, <<GenWeb, GenWebTwin>>),
              SnapshotNoCluster(<<GenWeb>>)}

\* Snapshot lists in which at most one snapshot carries VMs.
SnapshotLists ==
    {s \in UNION {[1..n -> GenSnapshots] : n \in 0..MaxSnapshots} :
        \A i, j \in 1..Len(s) :
            (i # j /\ s[i].VirtualMachines # <<>>) => s[j].VirtualMachines = <<>>}

\* filepath.Join(outputDir, path): a path is a sequence of segments.
Join(dir, path) == IF dir = "" THEN path ELSE <<dir>> \o path

\* The concatenation of a sequence of sequences.
RECURSIVE Flatten(_)
Flatten(ss) == IF ss = <<>> THEN <<>> ELSE Head(ss) \o Flatten(Tail(ss))

\* The orders a range over a Go map with the key set S can take.
Perms(S) ==
    {o \in [1..Cardinality(S) -> S] : \A i, j \in 1..Cardinality(S) : i # j => o[i] # o[j]}

\* The names of seq, each once, in the order of first appearance.
RECURSIVE FirstSeen(_)
FirstSeen(seq) ==
    IF seq = <<>> THEN <<>>
    ELSE LET front == FirstSeen(SubSeq(seq, 1, Len(seq) - 1))
             last == seq[Len(seq)]
         IN  IF \E i \in 1..Len(front) : front[i] = last THEN front
             ELSE Append(front, last)

\* nic.Network of every card of every VM, in snapshot order.
NicNetworks(vms) ==
    Flatten([i \in 1..Len(vms) |->
        [k \in 1..Len(vms[i].NetworkCards) |-> vms[i].NetworkCards[k].Network]])

\* disk.Datastore of every disk of every VM, in snapshot order.
DiskDatastores(vms) ==
    Flatten([i \in 1..Len(vms) |->
        [k \in 1..Len(vms[i].Disks) |-> vms[i].Disks[k].Datastore]])

\* The keys of the networks / datastores map built by the data-source
\* generator: the raw names, the empty name left out.
NetworkKeys(infra) ==
    LET names == NicNetworks(infra.VirtualMachines)
    IN  {n \in {names[i] : i \in 1..Len(names)} : n # <<>>}

DatastoreKeys(infra) ==
    LET names == DiskDatastores(infra.VirtualMachines)
    IN  {d \in {names[i] : i \in 1..Len(names)} : d # <<>>}

\* The keys of a map in the order one range over it visits them; order is
\* the order this run's ranges take over all names.
RangeOver(keys, order) == SelectSeq(order, LAMBDA k : k \in keys)


(***************************************************************************)
(* TerraformGenerator.  The content of a file is the sequence of the       *)
(* blocks written into it, in order.                                       *)
(***************************************************************************)
\* generateForProvider's switch with the default case rendering nothing.
ProviderKindLenient(infra) ==
    LET p == ToLower(infra.Provider)
    IN  CASE p \in {ProviderVMware, ProviderVSphere} -> "vmware"
          [] p = ProviderNutanix -> "nutanix"
          [] OTHER -> "proxmox"

\* The switch on strings.ToLower(infra.Provider) of generateForProvider.
ProviderKind(infra) ==
    LET p == ToLower(infra.Provider)
    IN  CASE p \in {ProviderVMware, ProviderVSphere} -> "vmware"
          [] p = ProviderProxmox -> "proxmox"
          [] p = ProviderNutanix -> "nutanix"
          [] OTHER -> "unsupported"

\* A GenerateResult.
Artifact(path, content, type, prov) ==
    [Path |-> path, Content |-> content, Type |-> type, Provider |-> prov]

generateVMwareProvider(infra) == <<[block |-> "provider", type |-> "vsphere"]>>

generateVMwareVariables(infra) ==
    <<[block |-> "variable", id |-> "vsphere_server", default |-> infra.Server],
      [block |-> "variable", id |-> "datacenter", default |-> infra.Datacenter]>>

DataBlock(type, id, n) == [block |-> "data", type |-> type, id |-> id, name |-> n]

\* generateVMwareDataSources: the datacenter, the cluster when one is set,
\* then one vsphere_network block per key of the networks map and one
\* vsphere_datastore block per key of the datastores map, each in the order
\* the range over the map takes.
generateVMwareDataSources(infra, order) ==
    LET nets == RangeOver(NetworkKeys(infra), order)
        dss == RangeOver(DatastoreKeys(infra), order)
    IN  <<DataBlock("vsphere_datacenter", <<"d", "c">>, <<>>)>>
        \o (IF infra.Cluster # <<>>
            THEN <<DataBlock("vsphere_compute_cluster",
                             <<"c", "l", "u", "s", "t", "e", "r">>, infra.Cluster)>>
            ELSE <<>>)
        \o [i \in 1..Len(nets) |->
               DataBlock("vsphere_network", GenerateResourceName(nets[i]), nets[i])]
        \o [i \in 1..Len(dss) |->
               DataBlock("vsphere_datastore", GenerateResourceName(dss[i]), dss[i])]

\* vm.Disks[0] of a VM without disks: index out of range.
generateVMwareVMsPanics(vms) ==
    \E i \in 1..Len(vms) : ~vms[i].Template /\ vms[i].Disks = <<>>

\* generateVMwareVMs: one resource block per VM that is not a template.
generateVMwareVMs(vms) ==
    LET kept == SelectSeq(vms, LAMBDA vm : ~vm.Template)
    IN  [i \in 1..Len(kept) |->
            [block |-> "resource", type |-> "vsphere_virtual_machine",
             id |-> GenerateResourceName(kept[i].Name),
             name |-> kept[i].Name,
             resource_pool |-> <<"c", "l", "u", "s", "t", "e", "r">>,
             datastore |-> GenerateResourceName(kept[i].Disks[1].Datastore),
             network_interface |->
                 [k \in 1..Len(kept[i].NetworkCards) |->
                     GenerateResourceName(kept[i].NetworkCards[k].Network)],
             disk |->
                 [k \in 1..Len(kept[i].Disks) |->
                     GenerateResourceName(kept[i].Disks[k].Datastore)]]]

\* generateVMwareOutputs without the template test.
generateVMwareOutputsAll(infra) ==
    [i \in 1..Len(infra.VirtualMachines) |->
        [block |-> "output", key |-> infra.VirtualMachines[i].Name,
         id |-> GenerateResourceName(infra.VirtualMachines[i].Name)]]

\* generateVMwareOutputs: one entry per VM that is not a template.
generateVMwareOutputs(infra) ==
    LET kept == SelectSeq(infra.VirtualMachines, LAMBDA vm : ~vm.Template)
    IN  [i \in 1..Len(kept) |->
            [block |-> "output", key |-> kept[i].Name,
             id |-> GenerateResourceName(kept[i].Name)]]

\* What rendering one snapshot gave: results, an error, or a panic.
Rendered(results) == [err |-> NilErr, panic |-> FALSE, results |-> results]
RenderFailed(e) == [err |-> e, panic |-> FALSE, results |-> <<>>]
RenderPanic == [err |-> "panic", panic |-> TRUE, results |-> <<>>]

\* TerraformGenerator.generateVMware
TerraformGenerateVMware(infra, order) ==
    IF Len(infra.VirtualMachines) > 0 /\ generateVMwareVMsPanics(infra.VirtualMachines)
    THEN RenderPanic
    ELSE Rendered(
           <<Artifact(<<"provider.tf">>, generateVMwareProvider(infra), "provider", "vmware"),
             Artifact(<<"variables.tf">>, generateVMwareVariables(infra), "variables", "vmware"),
             Artifact(<<"data.tf">>, generateVMwareDataSources(infra, order), "data", "vmware")>>
           \o (IF Len(infra.VirtualMachines) > 0
               THEN <<Artifact(<<"virtual_machines.tf">>,
                               generateVMwareVMs(infra.VirtualMachines),
                               "resources", "vmware")>>
               ELSE <<>>)
           \o <<Artifact(<<"outputs.tf">>, generateVMwareOutputs(infra), "outputs", "vmware")>>)

\* TerraformGenerator.generateForProvider
TerraformGenerateForProvider(infra, order) ==
    CASE ProviderKind(infra) = "vmware" -> TerraformGenerateVMware(infra, order)
      [] ProviderKind(infra) \in {"proxmox", "nutanix"} -> Rendered(<<>>)
      [] OTHER -> RenderFailed("unsupported provider")

\* What a Generate call gave: the returned list and error, whether it
\* panicked, and the paths of the files it wrote, in order (a file is
\* written with the Content of its result).
GenerateReturn(e, results, writes) ==
    [err |-> e, panic |-> FALSE, results |-> results, writes |-> writes]

GeneratePanic == [err |-> "panic", panic |-> TRUE, results |-> <<>>, writes |-> <<>>]

\* The write loop that ends Generate: nothing in a dry run; otherwise every
\* result is written under OutputDir and its Path becomes the joined path.
\* failAt is the result whose MkdirAll or WriteFile fails (0: none).
WriteFiles(results, opts, failAt) ==
    LET joined == [i \in 1..Len(results) |->
                      [results[i] EXCEPT !.Path = Join(opts.OutputDir, results[i].Path)]]
    IN  IF opts.DryRun THEN GenerateReturn(NilErr, results, <<>>)
        ELSE IF failAt \in 1..Len(results)
             THEN GenerateReturn("failed to write file", <<>>,
                                 [i \in 1..(failAt - 1) |-> joined[i].Path])
             ELSE GenerateReturn(NilErr, joined,
                                 [i \in 1..Len(joined) |-> joined[i].Path])

\* The per-snapshot loop of Generate: the first snapshot that fails ends
\* the call; otherwise the results are appended in order.
GenerateLoop(before, outs, after, opts, failAt) ==
    LET bad == {i \in 1..Len(outs) : outs[i].panic \/ outs[i].err # NilErr}
    IN  IF bad # {}
        THEN LET k == CHOOSE i \in bad : \A j \in bad : i <= j
             IN  IF outs[k].panic THEN GeneratePanic
                 ELSE GenerateReturn(outs[k].err, <<>>, <<>>)
        ELSE WriteFiles(before \o Flatten([i \in 1..Len(outs) |-> outs[i].results]) \o after,
                        opts, failAt)

\* TerraformGenerator.Generate
TerraformGenerate(infras, opts, order, failAt) ==
    GenerateLoop(<<>>,
                 [i \in 1..Len(infras) |-> TerraformGenerateForProvider(infras[i], order)],
                 <<>>, opts, failAt)


(***************************************************************************)
(* AnsibleGenerator.                                                       *)
(***************************************************************************)
\* strings.ToUpper on one character
UpperChar(c) ==
    IF c \in LowerLetters
    THEN Upper[CHOOSE i \in 1..Len(Lower) : Lower[i] = c]
    ELSE c

\* strings.ToUpper
ToUpper(s) == [i \in 1..Len(s) |-> UpperChar(s[i])]

\* generateMainPlaybook: one include line and one summary line per snapshot.
generateMainPlaybook(infras) ==
    [i \in 1..Len(infras) |->
        [line |-> "include",
         file |-> <<"tasks", ToLower(infras[i].Provider)>>]]
    \o [i \in 1..Len(infras) |->
        [line |-> "summary", provider |-> ToUpper(infras[i].Provider),
         server |-> infras[i].Server, vms |-> Len(infras[i].VirtualMachines)]]

\* The host entries of one inventory group: the VMs that are not templates.
InventoryHosts(infra) ==
    LET kept == SelectSeq(infra.VirtualMachines, LAMBDA vm : ~vm.Template)
    IN  [i \in 1..Len(kept) |->
            [hostName |-> ReplaceAll(ToLower(kept[i].Name), " ", "_"),
             vm_name |-> kept[i].Name]]

\* generateInventory: one group per snapshot, named after provider and server.
generateInventory(infras) ==
    [i \in 1..Len(infras) |->
        [groupName |-> ToLower(infras[i].Provider) \o <<"_">>
                           \o ReplaceAll(ToLower(infras[i].Server), ".", "_"),
         hosts |-> InventoryHosts(infras[i]),
         provider |-> infras[i].Provider, server |-> infras[i].Server]]

\* generateGroupVars: the providers, then each network and each datastore
\* name of the snapshots once, in order of first appearance.
generateGroupVars(infras) ==
    [providers |->
        [i \in 1..Len(infras) |->
            [provider |-> ToLower(infras[i].Provider), server |-> infras[i].Server,
             credentials |->
                IF ToLower(infras[i].Provider) \in {ProviderVMware, ProviderVSphere}
                THEN "vsphere"
                ELSE IF ToLower(infras[i].Provider) = ProviderProxmox THEN "proxmox"
                ELSE ""]],
     network_mappings |-> FirstSeen(Flatten([i \in 1..Len(infras) |-> infras[i].Networks])),
     datastore_mappings |-> FirstSeen(Flatten([i \in 1..Len(infras) |-> infras[i].Storage]))]

\* AnsibleGenerator.generateVMware: one loop item per VM that is not a
\* template, with its disks and network cards.
AnsibleGenerateVMware(infra) ==
    LET kept == SelectSeq(infra.VirtualMachines, LAMBDA vm : ~vm.Template)
    IN  Rendered(<<Artifact(<<"tasks", "vmware.yml">>,
            [i \in 1..Len(kept) |->
                [name |-> kept[i].Name,
                 disks |-> [k \in 1..Len(kept[i].Disks) |->
                               [datastore |-> kept[i].Disks[k].Datastore,
                                unit_number |-> k - 1]],
                 networks |-> [k \in 1..Len(kept[i].NetworkCards) |->
                                  kept[i].NetworkCards[k].Network]]],
            "tasks", "vmware")>>)

\* AnsibleGenerator.generateForProvider
AnsibleGenerateForProvider(infra) ==
    CASE ProviderKind(infra) = "vmware" -> AnsibleGenerateVMware(infra)
      [] ProviderKind(infra) = "proxmox" ->
            Rendered(<<Artifact(<<"tasks", "proxmox.yml">>, <<>>, "tasks", "proxmox")>>)
      [] ProviderKind(infra) = "nutanix" ->
            Rendered(<<Artifact(<<"tasks", "nutanix.yml">>, <<>>, "tasks", "nutanix")>>)
      [] OTHER -> RenderFailed("unsupported provider")

\* AnsibleGenerator.Generate
AnsibleGenerate(infras, opts, failAt) ==
    GenerateLoop(
        <<Artifact(<<"site.yml">>, generateMainPlaybook(infras), "playbook", "ansible"),
          Artifact(<<"inventory.yml">>, generateInventory(infras), "inventory", "ansible"),
          Artifact(<<"group_vars", "all.yml">>, generateGroupVars(infras),
                   "variables", "ansible")>>,
        [i \in 1..Len(infras) |-> AnsibleGenerateForProvider(infras[i])],
        <<Artifact(<<"requirements.yml">>, <<>>, "requirements", "ansible")>>,
        opts, failAt)

\* Generator.Generate of the generator built.
Generate(gen, infras, opts, order, failAt) ==
    IF gen = "terraform" THEN TerraformGenerate(infras, opts, order, failAt)
    ELSE AnsibleGenerate(infras, opts, failAt)

(***************************************************************************)
(* SpecGen: one generator, one snapshot list, and two Generate calls on    *)
(* them, each with its own DryRun flag, its own map iteration order and    *)
(* its own file-system luck.                                               *)
(***************************************************************************)
\* Every name that is a key of some snapshot's networks / datastores map.
AllNetworkKeys(infras) == UNION {NetworkKeys(infras[i]) : i \in 1..Len(infras)}

AllDatastoreKeys(infras) == UNION {DatastoreKeys(infras[i]) : i \in 1..Len(infras)}

\* The orders this run's ranges over the maps can take.
RangeOrders(infras) ==
    {no \o do : no \in Perms(AllNetworkKeys(infras)), do \in Perms(AllDatastoreKeys(infras))}

\* The result whose write fails in a run: none, the first, the second.  A dry
\* run writes nothing, so nothing can fail.
WriteFailures(dry) == IF dry THEN {0} ELSE {0, 1, 2}

InitGen ==
    /\ generator \in {"terraform", "ansible"}
    /\ snapshots \in SnapshotLists
    /\ outputDir \in {"", "out"}
    /\ runs = <<>>
    /\ impl = "simple"
    /\ provider = NewVMwareProvider
    /\ logins = 0
    /\ logouts = 0
    /\ connectsOk = 0
    /\ inventory = <<>>
    /\ filters = NoFilters
    /\ ret = NoRet
    /\ ncalls = 0
    /\ EngineIdle
    /\ NameIdle /\ CliIdle /\ ValIdle /\ JsonIdle

\* One Generate call and what it leaves behind.
Run(dry, order, failAt) ==
    [DryRun |-> dry]
        @@ Generate(generator, snapshots, [DryRun |-> dry, OutputDir |-> outputDir],
                    order, failAt)

\* The first Generate call.
GenerateCall ==
    /\ runs = <<>>
    /\ \E dry \in BOOLEAN, order \in RangeOrders(snapshots) :
       \E failAt \in WriteFailures(dry) :
          runs' = <<Run(dry, order, failAt)>>
    /\ UNCHANGED <<generator, snapshots, outputDir>>
    /\ UNCHANGED <<providerVars, engineVars, nameVars, cliVars, valVars, jsonVars>>

\* A second Generate call with the same snapshots.
GenerateAgain ==
    /\ Len(runs) = 1
    /\ ~runs[1].panic
    /\ \E dry \in BOOLEAN, order \in RangeOrders(snapshots) :
       \E failAt \in WriteFailures(dry) :
          runs' = Append(runs, Run(dry, order, failAt))
    /\ UNCHANGED <<generator, snapshots, outputDir>>
    /\ UNCHANGED <<providerVars, engineVars, nameVars, cliVars, valVars, jsonVars>>

NextGen == GenerateCall \/ GenerateAgain

SpecGen == InitGen /\ [][NextGen]_vars


(***************************************************************************)
(* Claims about the generators (SpecGen).                                  *)
(***************************************************************************)
\* A Generate call that returned its artifact list.
Succeeded(r) == ~r.panic /\ r.err = NilErr

\* The blocks of one type in a file's content, in order.
BlocksOf(content, type) == SelectSeq(content, LAMBDA b : b.type = type)

\* The artifacts of one Type in a result list, in order.
ArtifactsOf(results, type) == SelectSeq(results, LAMBDA a : a.Type = type)

\* The snapshots rendered as VMware, in order.
VMwareSnapshots == SelectSeq(snapshots, LAMBDA infra : ProviderKind(infra) = "vmware")

\* The names in seq that are not empty, in order.
NonEmpty(seq) == SelectSeq(seq, LAMBDA n : n # <<>>)

\* C14: in every data-source file the Terraform generator returns, no two declarations of the same
\* kind carry the same sanitized identifier, and every network and datastore
\* a VM of the snapshot references is declared in it.
C14_DeclaredOncePerIdentifier ==
    \A k \in 1..Len(runs) : (generator = "terraform" /\ Succeeded(runs[k])) =>
        LET data == ArtifactsOf(runs[k].results, "data")
        IN  /\ Len(data) = Len(VMwareSnapshots)
            /\ \A a \in 1..Len(data) :
                  LET c == data[a].Content
                      infra == VMwareSnapshots[a]
                  IN  /\ \A i, j \in 1..Len(c) :
                            (i # j /\ c[i].type = c[j].type) => c[i].id # c[j].id
                      /\ \A n \in NetworkKeys(infra) :
                            \E i \in 1..Len(c) :
                                /\ c[i].type = "vsphere_network"
                                /\ c[i].id = GenerateResourceName(n)
                      /\ \A d \in DatastoreKeys(infra) :
                            \E i \in 1..Len(c) :
                                /\ c[i].type = "vsphere_datastore"
                                /\ c[i].id = GenerateResourceName(d)

\* C15: the network and datastore declarations of a Terraform data-source file come in
\* the order in which the snapshot's VMs first mention each name, and the
\* file comes before the VM resource file of the same snapshot.
C15_FirstSeenOrder ==
    \A k \in 1..Len(runs) : (generator = "terraform" /\ Succeeded(runs[k])) =>
        LET res == runs[k].results
            data == ArtifactsOf(res, "data")
        IN  /\ Len(data) = Len(VMwareSnapshots)
            /\ \A a \in 1..Len(data) :
                  LET c == data[a].Content
                      vms == VMwareSnapshots[a].VirtualMachines
                      nets == BlocksOf(c, "vsphere_network")
                      dss == BlocksOf(c, "vsphere_datastore")
                  IN  /\ [i \in 1..Len(nets) |-> nets[i].name]
                            = FirstSeen(NonEmpty(NicNetworks(vms)))
                      /\ [i \in 1..Len(dss) |-> dss[i].name]
                            = FirstSeen(NonEmpty(DiskDatastores(vms)))
            /\ \A j \in 1..Len(res) : res[j].Type = "resources" =>
                  j > 1 /\ res[j - 1].Type = "data"

\* C16: two Generate calls with the same snapshots and the same options that
\* both returned their list returned the same list.
C16_Deterministic ==
    (/\ Len(runs) = 2
     /\ runs[1].DryRun = runs[2].DryRun
     /\ Succeeded(runs[1]) /\ Succeeded(runs[2])) =>
        runs[1].results = runs[2].results

\* C17: a dry run and a real run over the same snapshots that both returned
\* their list returned the same list; the real run wrote every file and the
\* dry run wrote none.
C17_DryRunEquivalence ==
    \A d, w \in 1..Len(runs) :
        (/\ runs[d].DryRun /\ ~runs[w].DryRun
         /\ Succeeded(runs[d]) /\ Succeeded(runs[w])) =>
            /\ runs[d].results = runs[w].results
            /\ runs[d].writes = <<>>
            /\ Len(runs[w].writes) = Len(runs[w].results)


\* The names of the VMs of the given snapshots that are not templates, in order.
CreatableNames(infras) ==
    Flatten([i \in 1..Len(infras) |->
        LET kept == SelectSeq(infras[i].VirtualMachines, LAMBDA vm : ~vm.Template)
        IN  [k \in 1..Len(kept) |-> kept[k].Name]])

\* The field f of every entry of every artifact of the given Type, in order.
EntryNames(results, type, f) ==
    Flatten([a \in 1..Len(ArtifactsOf(results, type)) |->
        [k \in 1..Len(ArtifactsOf(results, type)[a].Content) |->
            ArtifactsOf(results, type)[a].Content[k][f]]])

\* The vm_name of every host of every inventory group, in order.
InventoryHostNames(results) ==
    Flatten(Flatten([a \in 1..Len(ArtifactsOf(results, "inventory")) |->
        [g \in 1..Len(ArtifactsOf(results, "inventory")[a].Content) |->
            [h \in 1..Len(ArtifactsOf(results, "inventory")[a].Content[g].hosts) |->
                ArtifactsOf(results, "inventory")[a].Content[g].hosts[h].vm_name]]]))

HasUnsupported ==
    \E i \in 1..Len(snapshots) : snapshots[i].Provider = ProviderUnknown

C26_SnapshotArtifactsIndependent ==
    \A k \in 1..Len(runs) : Succeeded(runs[k]) =>
        \A i, j \in 1..Len(runs[k].results) :
            i # j => runs[k].results[i].Path # runs[k].results[j].Path

\* The data sources of `type` declared in a data-source file.
Declared(data, type) ==
    {data.Content[i].id : i \in {n \in 1..Len(data.Content) : data.Content[n].type = type}}

\* C27: every data source a VM resource block of a Terraform run references
\* (its cluster, its datastores, its networks) is declared, under that
\* identifier, in the data-source file of the same snapshot.
C27_ReferentialIntegrity ==
    \A k \in 1..Len(runs) : (generator = "terraform" /\ Succeeded(runs[k])) =>
        LET res == runs[k].results IN
        \A j \in 1..Len(res) : res[j].Type = "resources" =>
            \A b \in 1..Len(res[j].Content) :
                LET vm == res[j].Content[b]
                    data == res[j - 1]
                IN  /\ vm.resource_pool \in Declared(data, "vsphere_compute_cluster")
                    /\ vm.datastore \in Declared(data, "vsphere_datastore")
                    /\ \A d \in 1..Len(vm.disk) :
                          vm.disk[d] \in Declared(data, "vsphere_datastore")
                    /\ \A n \in 1..Len(vm.network_interface) :
                          vm.network_interface[n] \in Declared(data, "vsphere_network")

\* C28: a Terraform Generate call returns, with artifacts or with an error
\* value; it does not panic.
C28_GenerateCompletes ==
    \A k \in 1..Len(runs) : generator = "terraform" => ~runs[k].panic

\* C29: in a VM resource file a Terraform run returns, no two resource
\* blocks carry the same identifier.
C29_UniqueResourceIds ==
    \A k \in 1..Len(runs) : (generator = "terraform" /\ Succeeded(runs[k])) =>
        LET res == runs[k].results IN
        \A j \in 1..Len(res) : res[j].Type = "resources" =>
            \A a, b \in 1..Len(res[j].Content) :
                a # b => res[j].Content[a].id # res[j].Content[b].id

(***************************************************************************)
(* The discover command (runDiscover).  It walks opts.Providers in order;  *)
(* cliPc.i is the index of the provider the loop is at.  cliEvents lists   *)
(* the contacts made with platforms and engine, in order.                  *)
(***************************************************************************)
MaxProviders == 2   \* longest --provider list explored

ProviderNames ==
    {ProviderVMware, ProviderVMwareMixed, ProviderProxmox, ProviderNutanix,
     ProviderUnknown}

ProviderLists == UNION {[1..n -> ProviderNames] : n \in 0..MaxProviders}

\* The case of runDiscover's switch a provider name falls in.
ProviderCase(p) ==
    CASE ToLower(p) \in {ProviderVMware, ProviderVSphere} -> "vmware"
      [] ToLower(p) = ProviderProxmox -> "proxmox"
      [] ToLower(p) = ProviderNutanix -> "nutanix"
      [] OTHER -> "unsupported"

\* Engine.DiscoverVMware as one call: connect, discover, and the deferred
\* Disconnect once the connect has succeeded.
EngineDiscoverVMware(cfg, outcome, env) ==
    LET c == ConnectVMware(NewVMwareProvider, cfg, outcome)
        d == Discover(c.p, inventory, env)
    IN  IF c.err # NilErr
        THEN [infras |-> <<>>, err |-> "failed to connect to VMware",
              contacts |-> <<"connect">>]
        ELSE IF d.err # NilErr
             THEN [infras |-> <<>>, err |-> "VMware discovery failed",
                   contacts |-> <<"connect", "discover", "disconnect">>]
             ELSE [infras |-> d.infra, err |-> NilErr,
                   contacts |-> <<"connect", "discover", "disconnect">>]

InitCli ==
    /\ cliOpts \in [Providers : ProviderLists, DryRun : BOOLEAN]
    /\ cliPc = [at |-> "idle", i |-> 0]
    /\ cliEvents = <<>>
    /\ cliResults = <<>>
    /\ cliRet = <<>>
    /\ config \in EngineConfigs
    /\ impl \in {"full", "simple"}
    /\ inventory = <<VMWeb>>
    /\ provider = NewVMwareProvider
    /\ logins = 0
    /\ logouts = 0
    /\ connectsOk = 0
    /\ filters = NoFilters
    /\ ret = NoRet
    /\ ncalls = 0
    /\ pc = "idle"
    /\ events = <<>>
    /\ pending = <<>>
    /\ allResults = <<>>
    /\ errors = <<>>
    /\ result = <<>>
    /\ NameIdle /\ GenIdle /\ ValIdle /\ JsonIdle

cliUnchanged ==
    UNCHANGED <<cliOpts, providerVars, engineVars, nameVars, genVars, valVars, jsonVars>>

\* runDiscover returns err.
CliReturn(err) ==
    /\ cliRet' = <<err>>
    /\ cliPc' = [at |-> "done", i |-> cliPc.i]

\* The loop body ended without an error: next provider.
CliNext == cliPc' = [at |-> "loop", i |-> cliPc.i + 1] /\ cliRet' = cliRet

\* The loop is at a provider and this is not a dry run.
CliAt(kind) ==
    /\ cliPc.at = "loop"
    /\ cliPc.i <= Len(cliOpts.Providers)
    /\ ~cliOpts.DryRun
    /\ ProviderCase(cliOpts.Providers[cliPc.i]) = kind

\* runDiscover up to the loop: cfg.Validate() and NewEngine.
CliStart ==
    /\ cliPc.at = "idle"
    /\ \E validateFails \in BOOLEAN :
          IF validateFails
          THEN CliReturn("configuration validation failed")
          ELSE cliPc' = [at |-> "loop", i |-> 1] /\ cliRet' = cliRet
    /\ UNCHANGED <<cliEvents, cliResults>>
    /\ cliUnchanged

\* Dry run: the provider is logged and skipped before the switch.
CliDryRunSkip ==
    /\ cliPc.at = "loop"
    /\ cliPc.i <= Len(cliOpts.Providers)
    /\ cliOpts.DryRun
    /\ CliNext
    /\ UNCHANGED <<cliEvents, cliResults>>
    /\ cliUnchanged

\* case "vmware", "vsphere": discoverVMware.
CliDiscoverVMware ==
    /\ CliAt("vmware")
    /\ IF config.vmware.Server = ""
       THEN /\ CliReturn("VMware server not configured")
            /\ UNCHANGED <<cliEvents, cliResults>>
       ELSE \E outcome \in ConnectOutcomes(config.vmware),
               env \in EnvsFor({"vmList"}) :
               LET r == EngineDiscoverVMware(config.vmware, outcome, env) IN
               /\ cliEvents' = cliEvents \o r.contacts
               /\ IF r.err # NilErr
                  THEN CliReturn(r.err) /\ cliResults' = cliResults
                  ELSE CliNext /\ cliResults' = cliResults \o r.infras
    /\ cliUnchanged

\* case "proxmox": discoverProxmox.
CliDiscoverProxmox ==
    /\ CliAt("proxmox")
    /\ IF config.proxmox = ""
       THEN /\ CliReturn("Proxmox server not configured")
            /\ UNCHANGED <<cliEvents, cliResults>>
       ELSE /\ cliEvents' = Append(cliEvents, "proxmox")
            /\ cliResults' = cliResults \o DiscoverProxmox(config.proxmox).infras
            /\ CliNext
    /\ cliUnchanged

\* case "nutanix": discoverNutanix.
CliDiscoverNutanix ==
    /\ CliAt("nutanix")
    /\ IF config.nutanix = ""
       THEN /\ CliReturn("Nutanix server not configured")
            /\ UNCHANGED <<cliEvents, cliResults>>
       ELSE /\ cliEvents' = Append(cliEvents, "nutanix")
            /\ cliResults' = cliResults \o DiscoverNutanix(config.nutanix).infras
            /\ CliNext
    /\ cliUnchanged

\* default: unsupported provider.
CliUnsupported ==
    /\ CliAt("unsupported")
    /\ CliReturn("unsupported provider")
    /\ UNCHANGED <<cliEvents, cliResults>>
    /\ cliUnchanged

\* After the loop: outputResults, then return.
CliOutput ==
    /\ cliPc.at = "loop"
    /\ cliPc.i > Len(cliOpts.Providers)
    /\ \E outputFails \in BOOLEAN :
          CliReturn(IF outputFails THEN "failed to output results" ELSE NilErr)
    /\ cliEvents' = Append(cliEvents, "output")
    /\ UNCHANGED cliResults
    /\ cliUnchanged

NextCli ==
    \/ CliStart
    \/ CliDryRunSkip
    \/ CliDiscoverVMware
    \/ CliDiscoverProxmox
    \/ CliDiscoverNutanix
    \/ CliUnsupported
    \/ CliOutput

SpecCli == InitCli /\ [][NextCli]_vars

(***************************************************************************)
(* Claims about the discover command (SpecCli).                            *)
(***************************************************************************)
\* The --provider list holds a name runDiscover does not support.
HasUnsupportedName ==
    \E i \in 1..Len(cliOpts.Providers) :
        ProviderCase(cliOpts.Providers[i]) = "unsupported"

\* The contacts made with a platform or the engine's discovery.
PlatformContacts == SelectSeq(cliEvents, LAMBDA e : e # "output")

\* C20: a discover run whose provider list holds an unsupported name, once
\* past the configuration check, ends with the unsupported-provider error
\* and has not connected to or discovered any listed provider.
C20_UnsupportedBeforeAnyWork ==
    (/\ cliPc.at = "done"
     /\ HasUnsupportedName
     /\ cliRet # <<"configuration validation failed">>) =>
        /\ cliRet = <<"unsupported provider">>
        /\ PlatformContacts = <<>>

\* A listed provider whose server the configuration leaves empty.
HasUnconfiguredProvider ==
    \E i \in 1..Len(cliOpts.Providers) :
        LET kind == ProviderCase(cliOpts.Providers[i])
        IN  \/ kind = "vmware" /\ config.vmware.Server = ""
            \/ kind = "proxmox" /\ config.proxmox = ""
            \/ kind = "nutanix" /\ config.nutanix = ""

\* C21: a --dry-run discover run whose provider list or configuration makes
\* the real run fail (an unsupported name, a listed provider without a
\* configured server) returns an error too.
C21_DryRunSurfacesErrors ==
    (/\ cliPc.at = "done"
     /\ cliOpts.DryRun
     /\ HasUnsupportedName \/ HasUnconfiguredProvider) =>
        cliRet # <<NilErr>>

(***************************************************************************)
(* The validate command (runValidate) and the Validator.  A file is its    *)
(* path, its extension, whether it can be read, and its lines; a line is   *)
(* one of a few representative texts, named by what the validators look    *)
(* for in it.                                                              *)
(***************************************************************************)
MaxLines == 1   \* longest file content explored, in lines
MaxFiles == 2   \* most files in a validated directory

\* "brace" is `{`, "tab" a line holding a tab, "module_source" a line
\* `source = "..."` without a version.  ("backslash", a line with a single
\* backslash, is known to validateJSON; no explored file holds one.)
LineKinds == {"brace", "tab", "module_source"}

Contents == UNION {[1..n -> LineKinds] : n \in 0..MaxLines}

ValExts == {".tf", ".json", ".yaml"}

\* The files explored: readable files of the detected formats, a readable
\* file of a format the validator does not support, an unreadable file.
ValFiles ==
    {[Ext |-> e, readable |-> TRUE, lines |-> c] : e \in ValExts, c \in Contents}
        \cup {[Ext |-> ".py", readable |-> TRUE, lines |-> <<>>],
              [Ext |-> ".json", readable |-> FALSE, lines |-> <<>>]}

ValNodes ==
    {[kind |-> "missing"]}
        \cup {[kind |-> "file", file |-> f] : f \in ValFiles}
        \cup {[kind |-> "dir", files |-> fs] :
                 fs \in UNION {[1..n -> ValFiles] : n \in 0..MaxFiles}}

ValFormats == {"auto", "terraform", "ansible", "xml"}

ValidationIssue(severity, rule) == [Severity |-> severity, Rule |-> rule]

\* One issue for every line of the kind.
IssuePerLine(lines, kind, severity, rule) ==
    LET hits == SelectSeq(lines, LAMBDA l : l = kind)
    IN  [i \in 1..Len(hits) |-> ValidationIssue(severity, rule)]

detectFormat(ext) ==
    CASE ext \in {".tf", ".hcl"} -> "terraform"
      [] ext = ".json" -> "json"
      [] ext \in {".yaml", ".yml"} -> "yaml"
      [] ext = ".py" -> "python"
      [] OTHER -> "unknown"

shouldValidateFile(ext, format) ==
    IF format # "auto" /\ format # "unknown"
    THEN detectFormat(ext) = format
    ELSE detectFormat(ext) \in {"terraform", "json", "yaml", "pulumi"}

validateTerraform(lines) ==
    IssuePerLine(lines, "module_source", "warning", "terraform-module-version")

validateJSON(lines) ==
    (IF Len(lines) > 0 /\ lines[1] = "brace"
     THEN <<>>
     ELSE <<ValidationIssue("error", "json-syntax")>>)
        \o IssuePerLine(lines, "backslash", "warning", "json-escape")

validateYAML(lines) == IssuePerLine(lines, "tab", "error", "yaml-tabs")

validatePulumi(lines) == <<ValidationIssue("warning", "pulumi-import")>>

validateAnsible(lines) == <<ValidationIssue("warning", "ansible-structure")>>

onlyWarnings(issues) == \A i \in 1..Len(issues) : issues[i].Severity # "error"

\* Validator.ValidateFile: <<>> is the nil result.
ValidateFile(file, optsFormat) ==
    LET format == IF optsFormat = "auto" THEN detectFormat(file.Ext) ELSE optsFormat
        Checked(issues) ==
            [result |-> <<[Ext |-> file.Ext,
                           Valid |-> Len(issues) = 0 \/ onlyWarnings(issues),
                           Issues |-> issues]>>,
             err |-> NilErr]
    IN  IF ~file.readable
        THEN [result |-> <<>>, err |-> "failed to read file"]
        ELSE CASE format \in {"terraform", "tf"} -> Checked(validateTerraform(file.lines))
               [] format = "json" -> Checked(validateJSON(file.lines))
               [] format \in {"yaml", "yml"} -> Checked(validateYAML(file.lines))
               [] format = "pulumi" -> Checked(validatePulumi(file.lines))
               [] format = "ansible" -> Checked(validateAnsible(file.lines))
               [] OTHER -> [result |-> <<>>, err |-> "unsupported format"]

\* Validator.ValidateDirectory over the files of the directory, in walk
\* order: a file whose validation fails is logged and skipped.
RECURSIVE ValidateDirectory(_, _)
ValidateDirectory(files, optsFormat) ==
    IF files = <<>> THEN <<>>
    ELSE LET r == ValidateFile(Head(files), optsFormat)
             rest == ValidateDirectory(Tail(files), optsFormat)
         IN  IF shouldValidateFile(Head(files).Ext, optsFormat) /\ r.err = NilErr
             THEN r.result \o rest
             ELSE rest

\* runValidate's count of the issues with severity "error".
RECURSIVE totalErrors(_)
totalErrors(results) ==
    IF results = <<>> THEN 0
    ELSE Len(SelectSeq(Head(results).Issues, LAMBDA i : i.Severity = "error"))
             + totalErrors(Tail(results))

RECURSIVE totalIssues(_)
totalIssues(results) ==
    IF results = <<>> THEN 0
    ELSE Len(Head(results).Issues) + totalIssues(Tail(results))

\* A summary that fails on any issue, warnings included.
ValidateSummaryStrict(results) ==
    IF totalIssues(results) > 0 THEN "validation failed with errors" ELSE NilErr

\* The end of runValidate: an error when there were validation errors.
ValidateSummary(results) ==
    IF totalErrors(results) > 0 THEN "validation failed with errors" ELSE NilErr

InitValidate ==
    /\ valOpts \in [Format : ValFormats]
    /\ valNode \in ValNodes
    /\ valPc = "idle"
    /\ valResults = <<>>
    /\ valErr = NilErr
    /\ valRet = <<>>
    /\ impl = "simple"
    /\ provider = NewVMwareProvider
    /\ logins = 0
    /\ logouts = 0
    /\ connectsOk = 0
    /\ inventory = <<>>
    /\ filters = NoFilters
    /\ ret = NoRet
    /\ ncalls = 0
    /\ config = [vmware |-> [Server |-> "", Datacenter |-> "", Cluster |-> ""],
                 proxmox |-> "", nutanix |-> ""]
    /\ pc = "idle"
    /\ events = <<>>
    /\ pending = <<>>
    /\ allResults = <<>>
    /\ errors = <<>>
    /\ result = <<>>
    /\ NameIdle /\ GenIdle /\ CliIdle /\ JsonIdle

valUnchanged ==
    UNCHANGED <<valOpts, valNode, providerVars, engineVars, nameVars, genVars,
                cliVars, jsonVars>>

\* runValidate up to the validator: the two os.Stat calls.
ValidateStat ==
    /\ valPc = "idle"
    /\ IF valNode.kind = "missing"
       THEN valRet' = <<"path does not exist">> /\ valPc' = "done"
       ELSE \E statFails \in BOOLEAN :
               IF statFails
               THEN valRet' = <<"failed to get file info">> /\ valPc' = "done"
               ELSE valRet' = valRet /\ valPc' = "validate"
    /\ UNCHANGED <<valResults, valErr>>
    /\ valUnchanged

\* fileInfo.IsDir(): results and validationErr are assigned from
\* ValidateDirectory, which fails only when the walk itself fails.
ValidateDir ==
    /\ valPc = "validate"
    /\ valNode.kind = "dir"
    /\ \E walkFails \in BOOLEAN :
          IF walkFails
          THEN valResults' = <<>> /\ valErr' = "failed to walk directory"
          ELSE /\ valResults' = ValidateDirectory(valNode.files, valOpts.Format)
               /\ valErr' = NilErr
    /\ valPc' = "check"
    /\ UNCHANGED valRet
    /\ valUnchanged

\* A single file: `result, validationErr := validator.ValidateFile(...)`
\* declares a validationErr of the else block; the function's own
\* validationErr is not assigned.
ValidateSingle ==
    /\ valPc = "validate"
    /\ valNode.kind = "file"
    /\ LET r == ValidateFile(valNode.file, valOpts.Format) IN
          valResults' = IF r.err = NilErr THEN r.result ELSE valResults
    /\ valErr' = valErr
    /\ valPc' = "check"
    /\ UNCHANGED valRet
    /\ valUnchanged

\* if validationErr != nil: "validation failed".
ValidateFail ==
    /\ valPc = "check"
    /\ valErr # NilErr
    /\ valRet' = <<"validation failed">>
    /\ valPc' = "done"
    /\ UNCHANGED <<valResults, valErr>>
    /\ valUnchanged

\* The results are processed and summarised.
ValidateFinish ==
    /\ valPc = "check"
    /\ valErr = NilErr
    /\ valRet' = <<ValidateSummary(valResults)>>
    /\ valPc' = "done"
    /\ UNCHANGED <<valResults, valErr>>
    /\ valUnchanged

NextValidate ==
    \/ ValidateStat
    \/ ValidateDir
    \/ ValidateSingle
    \/ ValidateFail
    \/ ValidateFinish

SpecValidate == InitValidate /\ [][NextValidate]_vars

(***************************************************************************)
(* Claims about the validate command (SpecValidate).                       *)
(***************************************************************************)
\* Some finding of a validated file has severity "error".
HasErrorFinding ==
    \E k \in 1..Len(valResults) :
        \E i \in 1..Len(valResults[k].Issues) :
            valResults[k].Issues[i].Severity = "error"

\* runValidate got through validation to its summary.
ValidationRan ==
    /\ valPc = "done"
    /\ valRet \notin {<<"path does not exist">>, <<"failed to get file info">>,
                      <<"validation failed">>}

\* C22: validate returns an error whenever a finding of a validated file has
\* severity error, and returns nil when validation ran and every finding is
\* a warning.
C22_ErrorFindingsFail ==
    valPc = "done" =>
        /\ (HasErrorFinding => valRet # <<NilErr>>)
        /\ ((ValidationRan /\ ~HasErrorFinding) => valRet = <<NilErr>>)

\* C22 witness: a directory of two validated files, one with an error
\* finding and one with a warning only, made validate fail.
C22_Witness ==
    /\ valPc = "done"
    /\ Len(valResults) = 2
    /\ HasErrorFinding
    /\ \E k \in 1..2 : valResults[k].Issues # <<>> /\ valResults[k].Valid
    /\ valRet = <<"validation failed with errors">>

\* C23: when the path is a single file and validating it fails (unreadable,
\* unsupported or undetected format), validate returns an error.
C23_SingleFileHardError ==
    (/\ valPc = "done"
     /\ valNode.kind = "file"
     /\ valRet # <<"failed to get file info">>
     /\ ValidateFile(valNode.file, valOpts.Format).err # NilErr) =>
        valRet # <<NilErr>>


(***************************************************************************)
(* The persisted snapshot file: formatJSON (json.MarshalIndent) writes it, *)
(* readDiscoveryResults (json.Unmarshal) reads it.  A value held in an     *)
(* interface{} carries its Go type: [go |-> type, v |-> value].  A JSON    *)
(* value carries its JSON kind: [j |-> kind, v |-> value].                 *)
(***************************************************************************)
GoValue(type, v) == [go |-> type, v |-> v]

JsonValue(kind, v) == [j |-> kind, v |-> v]

EmptyObject == [k \in {} |-> JsonValue("null", 0)]

\* One member of a JSON object; with omitempty the member is left out when
\* the field holds its zero value.
Member(key, val, omitted) == IF omitted THEN EmptyObject ELSE key :> val

\* json.Marshal of a value held in an interface{}: the Go type is not
\* written, an int and a float64 both become a JSON number.
MarshalAny(g) ==
    CASE g.go \in {"int", "float64"} -> JsonValue("number", g.v)
      [] g.go = "string" -> JsonValue("string", g.v)
      [] OTHER -> JsonValue("bool", g.v)

\* json.Unmarshal into an interface{}: a JSON number becomes a float64.
UnmarshalAny(jv) ==
    CASE jv.j = "number" -> GoValue("float64", jv.v)
      [] jv.j = "string" -> GoValue("string", jv.v)
      [] OTHER -> GoValue("bool", jv.v)

MarshalMap(m) == JsonValue("object", [k \in DOMAIN m |-> MarshalAny(m[k])])

UnmarshalMap(jv) == [k \in DOMAIN jv.v |-> UnmarshalAny(jv.v[k])]

\* models.VirtualMachine: id, name, cpus, tags (omitempty), config.template.
MarshalVM(vm) ==
    JsonValue("object",
        Member("id", JsonValue("string", vm.ID), FALSE)
            @@ Member("name", JsonValue("string", vm.Name), FALSE)
            @@ Member("cpus", JsonValue("number", vm.CPUs), FALSE)
            @@ Member("tags",
                      JsonValue("array",
                                [i \in 1..Len(vm.Tags) |-> JsonValue("string", vm.Tags[i])]),
                      vm.Tags = <<>>)
            @@ Member("template", JsonValue("bool", vm.Template), FALSE))

\* The value of a member decoded into a typed field, or the field's zero
\* value when the object has no such member.
FieldOf(obj, key, zero) == IF key \in DOMAIN obj THEN obj[key].v ELSE zero

UnmarshalVM(jv) ==
    [ID |-> FieldOf(jv.v, "id", ""),
     Name |-> FieldOf(jv.v, "name", ""),
     CPUs |-> FieldOf(jv.v, "cpus", 0),
     Tags |-> IF "tags" \in DOMAIN jv.v
              THEN [i \in 1..Len(jv.v["tags"].v) |-> jv.v["tags"].v[i].v]
              ELSE <<>>,
     Template |-> FieldOf(jv.v, "template", FALSE)]

\* models.Infrastructure with its json tags.
MarshalInfrastructure(infra) ==
    JsonValue("object",
        Member("provider", JsonValue("string", infra.Provider), FALSE)
            @@ Member("server", JsonValue("string", infra.Server), FALSE)
            @@ Member("datacenter", JsonValue("string", infra.Datacenter),
                      infra.Datacenter = "")
            @@ Member("virtual_machines",
                      JsonValue("array",
                                [i \in 1..Len(infra.VirtualMachines) |->
                                    MarshalVM(infra.VirtualMachines[i])]),
                      FALSE)
            @@ Member("metadata", MarshalMap(infra.Metadata),
                      DOMAIN infra.Metadata = {}))

UnmarshalInfrastructure(jv) ==
    [Provider |-> FieldOf(jv.v, "provider", ""),
     Server |-> FieldOf(jv.v, "server", ""),
     Datacenter |-> FieldOf(jv.v, "datacenter", ""),
     VirtualMachines |->
         IF "virtual_machines" \in DOMAIN jv.v
         THEN [i \in 1..Len(jv.v["virtual_machines"].v) |->
                  UnmarshalVM(jv.v["virtual_machines"].v[i])]
         ELSE <<>>,
     Metadata |-> IF "metadata" \in DOMAIN jv.v
                  THEN UnmarshalMap(jv.v["metadata"])
                  ELSE EmptyObject]

\* Formatter.formatJSON: the JSON array of the snapshots.
formatJSON(infras) ==
    JsonValue("array", [i \in 1..Len(infras) |-> MarshalInfrastructure(infras[i])])

\* readDiscoveryResults: the snapshots decoded from the array.
readDiscoveryResults(doc) ==
    [i \in 1..Len(doc.v) |-> UnmarshalInfrastructure(doc.v[i])]

\* The snapshots discover hands to outputResults: what the VMware provider's
\* Discover builds (Metadata["total_resources"] is an int) and the
\* placeholders of the other platforms (string values only).
JsonVMs ==
    {<<>>,
     <<[ID |-> "vm-1", Name |-> "web", CPUs |-> 2, Tags |-> <<"prod">>, Template |-> FALSE]>>,
     <<[ID |-> "vm-2", Name |-> "tpl", CPUs |-> 1, Tags |-> <<>>, Template |-> TRUE]>>}

JsonSnapshots ==
    {[Provider |-> "vmware", Server |-> "vc1", Datacenter |-> dc,
      VirtualMachines |-> vms,
      Metadata |-> [total_resources |-> GoValue("int", Len(vms)),
                    discovery_duration |-> GoValue("string", "1s")]] :
        dc \in {"", "dc1"}, vms \in JsonVMs}
    \cup
    {[Provider |-> q, Server |-> "srv1", Datacenter |-> "",
      VirtualMachines |-> <<>>,
      Metadata |-> [status |-> GoValue("string", "not_implemented"),
                    message |-> GoValue("string", "next phase")]] :
        q \in {"proxmox", "nutanix"}}

InitJson ==
    /\ jsonIn \in UNION {[1..n -> JsonSnapshots] : n \in 0..MaxSnapshots}
    /\ jsonDoc = <<>>
    /\ jsonOut = <<>>
    /\ impl = "simple"
    /\ provider = NewVMwareProvider
    /\ logins = 0
    /\ logouts = 0
    /\ connectsOk = 0
    /\ inventory = <<>>
    /\ filters = NoFilters
    /\ ret = NoRet
    /\ ncalls = 0
    /\ config = [vmware |-> [Server |-> "", Datacenter |-> "", Cluster |-> ""],
                 proxmox |-> "", nutanix |-> ""]
    /\ pc = "idle"
    /\ events = <<>>
    /\ pending = <<>>
    /\ allResults = <<>>
    /\ errors = <<>>
    /\ result = <<>>
    /\ NameIdle /\ GenIdle /\ CliIdle /\ ValIdle

\* discover writes the snapshot file.
WriteSnapshots ==
    /\ jsonDoc = <<>>
    /\ jsonDoc' = <<formatJSON(jsonIn)>>
    /\ UNCHANGED <<jsonIn, jsonOut>>
    /\ UNCHANGED <<providerVars, engineVars, nameVars, genVars, cliVars, valVars>>

\* generate reads it back.
ReadSnapshots ==
    /\ jsonDoc # <<>>
    /\ jsonOut = <<>>
    /\ jsonOut' = <<readDiscoveryResults(jsonDoc[1])>>
    /\ UNCHANGED <<jsonIn, jsonDoc>>
    /\ UNCHANGED <<providerVars, engineVars, nameVars, genVars, cliVars, valVars>>

NextJson == WriteSnapshots \/ ReadSnapshots

SpecJson == InitJson /\ [][NextJson]_vars

\* C25: the snapshots read back from the JSON file equal the snapshots
\* written, in every field, the values of Metadata included.
C25_JsonRoundTrip == jsonOut # <<>> => jsonOut[1] = jsonIn

=============================================================================
